---- MODULE Spec2Model ----
(***************************************************************************)
(* A model of gzipi (src/gzipi/lib.py): the index binary search, the       *)
(* repacker, the frame boundary detector with the indexer, and the batch   *)
(* retrieve.  Byte strings are sequences of byte values 0..255.            *)
(***************************************************************************)
EXTENDS Integers, Sequences, FiniteSets, TLC

VARIABLES bs, rp, sr, ia, ix, rt, fn, cli

vars == <<bs, rp, sr, ia, ix, rt, fn, cli>>

\* A call of a function on its own, and a run of the command line: neither
\* is in use in the runs of the other components.
NoCall == [status |-> "off"]
NoCommand == [status |-> "off"]

(***************************************************************************)
(* Bytes                                                                   *)
(***************************************************************************)
\* _LINE_TERMINATOR = b'\n'
_LINE_TERMINATOR == 10
\* DEFAULT_CSV_DELIMITER = '|'
DEFAULT_CSV_DELIMITER == 124
_BYTES_IN_KiB == 1024
\* io.DEFAULT_BUFFER_SIZE, the default lookbehind of _start_of_line
DEFAULT_BUFFER_SIZE == 8192

Min(a, b) == IF a < b THEN a ELSE b
Max(a, b) == IF a > b THEN a ELSE b

\* Python's data[lo:hi] for 0 <= lo, clipped at the end of data (0-based, hi exclusive).
Slice(data, lo, hi) == SubSeq(data, lo + 1, Min(hi, Len(data)))

\* Python's bytes comparison a < b: byte-lexicographic, a proper prefix is smaller.
BytesLess(a, b) ==
    \E i \in 1..Len(b) :
        /\ \A j \in 1..(i - 1) : j <= Len(a) /\ a[j] = b[j]
        /\ (i > Len(a) \/ a[i] < b[i])

\* Number of occurrences of byte c in data (bytes.count).
Count(data, c) == Cardinality({i \in 1..Len(data) : data[i] = c})

\* 0-based position of the first c in data at or after 0-based position from, or -1.
Find(data, c, from) ==
    IF \E i \in (from + 1)..Len(data) : data[i] = c
    THEN (CHOOSE i \in (from + 1)..Len(data) :
              data[i] = c /\ \A j \in (from + 1)..(i - 1) : data[j] # c) - 1
    ELSE -1

\* 0-based position of the last c in data, or -1.
RFind(data, c) ==
    IF \E i \in 1..Len(data) : data[i] = c
    THEN (CHOOSE i \in 1..Len(data) :
              data[i] = c /\ \A j \in (i + 1)..Len(data) : data[j] # c) - 1
    ELSE -1

\* bytes.split(sep): the fields between the separators.
RECURSIVE Split(_, _)
Split(data, sep) ==
    LET p == Find(data, sep, 0)
    IN  IF p = -1 THEN <<data>>
        ELSE <<Slice(data, 0, p)>> \o Split(Slice(data, p + 1, Len(data)), sep)

\* bytes.rstrip(c): drop every trailing c.
RECURSIVE RStrip(_, _)
RStrip(data, c) ==
    IF Len(data) > 0 /\ data[Len(data)] = c
    THEN RStrip(SubSeq(data, 1, Len(data) - 1), c)
    ELSE data

\* fin.readline() at 0-based position pos: up to and including the next terminator.
ReadLine(data, pos) ==
    LET p == Find(data, _LINE_TERMINATOR, pos)
    IN  IF p = -1 THEN Slice(data, pos, Len(data)) ELSE Slice(data, pos, p + 1)

(***************************************************************************)
(* _start_of_line, _buffer_chunk, _is_last_line                            *)
(***************************************************************************)
\* _start_of_line that gives up, at offset 0, when its first lookbehind
\* holds no terminator.
_start_of_line_no_retry(fin, current_pos, bufsize) ==
    IF current_pos = 0 THEN 0
    ELSE LET seek_pos == Max(0, current_pos - bufsize)
             buf == Slice(fin, seek_pos, current_pos)
         IN  IF RFind(buf, _LINE_TERMINATOR) # -1
             THEN seek_pos + RFind(buf, _LINE_TERMINATOR) + 1
             ELSE 0

\* The position _start_of_line leaves the stream at, from position current_pos.
RECURSIVE _start_of_line(_, _, _)
_start_of_line(fin, current_pos, bufsize) ==
    IF current_pos = 0 THEN 0
    ELSE LET seek_pos == Max(0, current_pos - bufsize)
             buf == Slice(fin, seek_pos, current_pos)
         IN  IF RFind(buf, _LINE_TERMINATOR) # -1
             THEN seek_pos + RFind(buf, _LINE_TERMINATOR) + 1
             ELSE IF bufsize < current_pos
                  THEN _start_of_line(fin, current_pos, bufsize * 2)
                  ELSE 0

\* _buffer_chunk without `buf.write(fin.readline())`.
_buffer_chunk_no_readline(fin, start, end, pivot) ==
    LET pos0 == _start_of_line(fin, start, DEFAULT_BUFFER_SIZE)
        left_shift == start - pos0
        size == (end - start) + left_shift
        buf == Slice(fin, pos0, pos0 + size)
    IN  [fin |-> buf, start |-> 0, end |-> Len(buf),
         pivot |-> pivot - start + left_shift]

\* _buffer_chunk: the window [start, end) widened to whole lines, and the
\* coordinates translated into the buffer.
_buffer_chunk(fin, start, end, pivot) ==
    LET pos0 == _start_of_line(fin, start, DEFAULT_BUFFER_SIZE)
        left_shift == start - pos0
        size == (end - start) + left_shift
        head == Slice(fin, pos0, pos0 + size)
        after == Min(pos0 + size, Len(fin))
        buf == IF Len(head) > 0 /\ head[Len(head)] = _LINE_TERMINATOR
               THEN head
               ELSE head \o ReadLine(fin, after)
    IN  [fin |-> buf, start |-> 0, end |-> Len(buf),
         pivot |-> pivot - start + left_shift]

\* _is_last_line: no line terminator inside [start, end).
_is_last_line(fin, start, end) ==
    Count(Slice(fin, start, end), _LINE_TERMINATOR) = 0

(***************************************************************************)
(* _binary_search                                                          *)
(***************************************************************************)
\* The state of no search.
NoSearch ==
    [status |-> "off", key |-> <<>>, index |-> <<>>, fsize |-> 0,
     buffer_size |-> 0, fin |-> <<>>, tell |-> 0, start |-> 0, pivot |-> 0,
     end |-> 0, buffered |-> FALSE, seen |-> {}, rest |-> <<>>]

\* Lines 580-586: the locals before the loop.
_binary_search_begin(key, fin, fsize, buffer_size) ==
    [status |-> "running", key |-> key, index |-> fin, fsize |-> fsize,
     buffer_size |-> buffer_size, fin |-> fin, tell |-> 0,
     start |-> 0, pivot |-> fsize \div 2, end |-> fsize,
     buffered |-> (fsize < buffer_size * _BYTES_IN_KiB),
     seen |-> {}, rest |-> <<>>]

\* Lines 616-627: narrow the window, then buffer it once it is small enough.
_binary_search_narrow(s, candidate, tell) ==
    LET n == IF BytesLess(s.key, candidate)
             THEN [start |-> s.start, pivot |-> (s.pivot + s.start) \div 2,
                   end |-> s.pivot]
             ELSE [start |-> s.pivot, pivot |-> (s.pivot + s.end) \div 2,
                   end |-> s.end]
    IN  IF ~s.buffered /\ n.end - n.start < s.buffer_size * _BYTES_IN_KiB
        THEN LET b == _buffer_chunk(s.fin, n.start, n.end, n.pivot)
             IN  [s EXCEPT !.fin = b.fin, !.start = b.start, !.end = b.end,
                           !.pivot = b.pivot, !.buffered = TRUE, !.tell = 0]
        ELSE [s EXCEPT !.start = n.start, !.pivot = n.pivot, !.end = n.end,
                       !.tell = tell]

\* Lines 588-627: one iteration of the loop.
_binary_search_loop(s0) ==
    IF <<s0.start, s0.pivot, s0.end>> \in s0.seen
    THEN [s0 EXCEPT !.status = "AssertionError"]
    ELSE
    LET s == [s0 EXCEPT !.seen = @ \cup {<<s0.start, s0.pivot, s0.end>>}]
    IN  IF s.pivot > Len(s.fin)
        THEN [s EXCEPT !.status = "AssertionError"]
        ELSE
        LET pos == _start_of_line(s.fin, s.pivot, DEFAULT_BUFFER_SIZE)
            line == ReadLine(s.fin, pos)
            tell == pos + Len(line)
            d == Find(line, DEFAULT_CSV_DELIMITER, 0)
            candidate == Slice(line, 0, d)
            rest == Slice(line, d + 1, Len(line))
        IN  IF d = -1
            THEN [s EXCEPT !.status = "ValueError", !.tell = tell]
            ELSE IF candidate = s.key
            THEN [s EXCEPT !.status = "found", !.tell = tell,
                           !.rest = Split(RStrip(rest, _LINE_TERMINATOR),
                                          DEFAULT_CSV_DELIMITER)]
            ELSE IF tell = s.fsize
            THEN [s EXCEPT !.status = "KeyError", !.tell = tell]
            ELSE IF s.buffered /\ tell > s.end
                    /\ _is_last_line(s.fin, s.start, s.end)
            THEN [s EXCEPT !.status = "KeyError",
                           !.tell = Min(s.end, Len(s.fin))]
            ELSE _binary_search_narrow(s, candidate, tell)

(***************************************************************************)
(* Index files for the search                                              *)
(***************************************************************************)
\* Most lines an index holds.
MaxLines == 3
\* Width of the padding field of a long index line.
LongPad == 520

\* Keys, in ascending byte order: a, ab, b, c.
KeyUniverse == << <<97>>, <<97, 98>>, <<98>>, <<99>> >>

PadWidths == {1, 3, LongPad}

\* Base-10 text of a natural number ('%s' % n).
RECURSIVE Decimal(_)
Decimal(n) == IF n < 10 THEN <<48 + n>> ELSE Decimal(n \div 10) \o <<48 + (n % 10)>>

\* int(text) for a base-10 text.
RECURSIVE ParseInt(_)
ParseInt(t) ==
    IF Len(t) = 0 THEN 0
    ELSE 10 * ParseInt(SubSeq(t, 1, Len(t) - 1)) + (t[Len(t)] - 48)

\* The four trailing fields of the i-th entry: its number, padding, 0 and 1.
EntryFields(i, w) == <<Decimal(i), [j \in 1..w |-> 55], <<48>>, <<49>>>>

\* One index line: key|f1|f2|f3|f4\n.
IndexLine(key, fields) ==
    key \o <<DEFAULT_CSV_DELIMITER>> \o fields[1] \o <<DEFAULT_CSV_DELIMITER>>
        \o fields[2] \o <<DEFAULT_CSV_DELIMITER>> \o fields[3]
        \o <<DEFAULT_CSV_DELIMITER>> \o fields[4] \o <<_LINE_TERMINATOR>>

RECURSIVE Concat(_)
Concat(seqs) == IF Len(seqs) = 0 THEN <<>> ELSE Head(seqs) \o Concat(Tail(seqs))

\* The entries (key number, pad width) of every index sorted ascending by key.
SortedEntries ==
    UNION {{e \in [1..n -> (1..Len(KeyUniverse)) \X PadWidths] :
                \A i \in 1..(n - 1) : e[i][1] <= e[i + 1][1]} : n \in 0..MaxLines}

IndexBytes(e) ==
    Concat([i \in 1..Len(e) |->
               IndexLine(KeyUniverse[e[i][1]], EntryFields(i, e[i][2]))])

(***************************************************************************)
(* Compression facade: _determine_compression_from_header and the streams  *)
(* _open_compressed_file opens.  A gzip member is its 10-byte header, the  *)
(* payload, the end-of-stream block 03 00 and the 8-byte trailer (checksum *)
(* and size); a zstd frame is the magic, the frame header, the payload and *)
(* the empty last block 01 00 00.                                          *)
(***************************************************************************)
_GZIP_HEADER == <<31, 139, 8>>
_ZSTD_HEADER == <<40, 181, 47, 253>>
_GZIP_HEADER_LENGTH == 10
_ZSTD_HEADER_LENGTH == 18

\* The clock: the time a frame is written at and a header is validated at.
Now == 1793826000

\* struct.pack('<I', n)
LE32(n) == <<n % 256, (n \div 256) % 256, (n \div 65536) % 256,
             (n \div 16777216) % 256>>

RECURSIVE Sum(_)
Sum(data) == IF Len(data) = 0 THEN 0 ELSE Head(data) + Sum(Tail(data))

\* The trailer's check value (sizes here stay far below 2^31).
Checksum(data) == LE32(Sum(data))

GzipMember(data, mtime) ==
    _GZIP_HEADER \o <<0>> \o LE32(mtime) \o <<2, 255>> \o data \o <<3, 0>>
        \o Checksum(data) \o LE32(Len(data))

ZstdFrame(data) == _ZSTD_HEADER \o <<0, 88>> \o data \o <<1, 0, 0>>

StartsWith(data, prefix) ==
    Len(data) >= Len(prefix) /\ SubSeq(data, 1, Len(prefix)) = prefix

\* _determine_compression_from_header, on the four leading bytes.
_determine_compression_from_header(fin) ==
    LET header == Slice(fin, 0, 4)
    IN  IF StartsWith(header, _GZIP_HEADER) THEN "gzip"
        ELSE IF StartsWith(header, _ZSTD_HEADER) THEN "zstd"
        ELSE "none"

SUPPORTED_COMPRESSIONS == {"gzip", "zstd"}

\* What a writer opened by _open_compressed_file(.., mode='wb') leaves in its
\* sink on close, having been written data.
CompressedFrame(compression, data) ==
    IF compression = "gzip" THEN GzipMember(data, Now) ELSE ZstdFrame(data)

\* What a reader opened by _open_compressed_file(.., mode='rb') yields: every
\* member of the stream decoded and concatenated, or a failure.
RECURSIVE GzipDecode(_)
GzipDecode(raw) ==
    IF Len(raw) = 0 THEN [ok |-> TRUE, data |-> <<>>]
    ELSE IF ~StartsWith(raw, _GZIP_HEADER) \/ Len(raw) < _GZIP_HEADER_LENGTH
    THEN [ok |-> FALSE, data |-> <<>>]
    ELSE LET body == Slice(raw, _GZIP_HEADER_LENGTH, Len(raw))
             p == Find(body, 3, 0)
             data == Slice(body, 0, p)
             trailer == Slice(body, p + 2, p + 10)
         IN  IF p = -1 \/ Len(body) < p + 10 \/ body[p + 2] # 0
                \/ trailer # Checksum(data) \o LE32(Len(data))
             THEN [ok |-> FALSE, data |-> <<>>]
             ELSE LET more == GzipDecode(Slice(body, p + 10, Len(body)))
                  IN  [ok |-> more.ok, data |-> data \o more.data]

\* A zstd reader stops at the end of the first frame of its stream.
ZstdDecode(raw) ==
    IF Len(raw) = 0 THEN [ok |-> TRUE, data |-> <<>>]
    ELSE IF ~StartsWith(raw, _ZSTD_HEADER) \/ Len(raw) < 9
    THEN [ok |-> FALSE, data |-> <<>>]
    ELSE LET body == Slice(raw, 6, Len(raw))
             p == Find(body, 1, 0)
         IN  IF p = -1 \/ Len(body) < p + 3 \/ body[p + 2] # 0 \/ body[p + 3] # 0
             THEN [ok |-> FALSE, data |-> <<>>]
             ELSE [ok |-> TRUE, data |-> Slice(body, 0, p)]

_open_compressed_file(raw, compression) ==
    IF compression = "gzip" THEN GzipDecode(raw)
    ELSE IF compression = "zstd" THEN ZstdDecode(raw)
    ELSE [ok |-> FALSE, data |-> <<>>]

\* Iterating a binary stream: the lines, each with its terminator (the last
\* line may lack one).
RECURSIVE Lines(_)
Lines(data) ==
    IF Len(data) = 0 THEN <<>>
    ELSE LET line == ReadLine(data, 0)
         IN  <<line>> \o Lines(Slice(data, Len(line), Len(data)))

(***************************************************************************)
(* Header validators                                                       *)
(***************************************************************************)
_OLDEST_UNIX_TIMESTAMP == 1262307600
_POSSIBLE_OS_TYPES == {0, 3, 7, 255}

\* struct.unpack("i", b)[0]: four bytes as a little-endian signed 32-bit integer.
UnpackInt32(b) ==
    b[1] + 256 * b[2] + 65536 * b[3]
        + 16777216 * (IF b[4] >= 128 THEN b[4] - 256 ELSE b[4])

\* The validator without the upper limit of line 251.
_is_valid_gzip_header_any_future(header) ==
    IF Len(header) < _GZIP_HEADER_LENGTH THEN FALSE
    ELSE LET unix_timestamp == UnpackInt32(Slice(header, 4, 8))
         IN  IF unix_timestamp < _OLDEST_UNIX_TIMESTAMP THEN FALSE
             ELSE IF header[10] \notin _POSSIBLE_OS_TYPES THEN FALSE
             ELSE TRUE

_is_valid_gzip_header(header) ==
    IF Len(header) < _GZIP_HEADER_LENGTH THEN FALSE
    ELSE LET unix_timestamp == UnpackInt32(Slice(header, 4, 8))
         IN  IF unix_timestamp < _OLDEST_UNIX_TIMESTAMP \/ unix_timestamp > Now
             THEN FALSE
             ELSE IF header[10] \notin _POSSIBLE_OS_TYPES THEN FALSE
             ELSE TRUE

\* binary_string[3:5] are bits 4 and 3 of the byte, binary_string[5] is bit 2.
_is_valid_zstd_header(header) ==
    LET flags == header[5]
    IN  IF (flags \div 8) % 4 # 0 THEN FALSE
        ELSE IF (flags \div 4) % 2 # 1 THEN FALSE
        ELSE TRUE

(***************************************************************************)
(* _iterate_archives                                                       *)
(***************************************************************************)
\* bytes.rfind(sub): 0-based position of the last occurrence of sub, or -1.
RFindBytes(data, sub) ==
    LET at == {i \in 1..(Len(data) - Len(sub) + 1) :
                   SubSeq(data, i, i + Len(sub) - 1) = sub}
    IN  IF at = {} THEN -1 ELSE (CHOOSE i \in at : \A j \in at : j <= i) - 1

\* A window with no bytes of the earlier reads.
LastBytesNone(data, n) == <<>>

\* data[w_offset:] for a negative w_offset: the last -w_offset bytes.
LastBytes(data, n) == SubSeq(data, Max(1, Len(data) - n + 1), Len(data))

NoArchives ==
    [status |-> "off", fin |-> <<>>, pos |-> 0, buffer_size |-> 1,
     compression |-> "gzip", archive |-> <<>>, start_offset |-> 0,
     end_offset |-> 0, yielded |-> <<>>]

\* Lines 283-292: the locals before the loop.
_iterate_archives_begin(a) ==
    IF a.compression \notin SUPPORTED_COMPRESSIONS
    THEN [a EXCEPT !.status = "AssertionError"]
    ELSE [a EXCEPT !.status = "running", !.archive = <<>>,
                   !.start_offset = 0, !.end_offset = 0]

\* Lines 294-327: one iteration of the loop, which reads one chunk.
_iterate_archives_loop(a) ==
    LET gz == a.compression = "gzip"
        header == IF gz THEN _GZIP_HEADER ELSE _ZSTD_HEADER
        header_length == IF gz THEN _GZIP_HEADER_LENGTH ELSE _ZSTD_HEADER_LENGTH
        chunk == Slice(a.fin, a.pos, a.pos + a.buffer_size)
        pos == a.pos + Len(chunk)
        window == LastBytes(a.archive, header_length - 1) \o chunk
        archive == a.archive \o chunk
        header_pos == RFindBytes(archive, header)
        candidate == Slice(archive, header_pos, header_pos + header_length)
    IN  IF Len(chunk) = 0
        THEN [a EXCEPT !.status = "done",
                       !.start_offset = a.end_offset,
                       !.end_offset = a.end_offset + Len(a.archive),
                       !.yielded = Append(@, [archive |-> a.archive,
                                              start_offset |-> a.end_offset,
                                              end_offset |-> a.end_offset + Len(a.archive)])]
        ELSE IF Len(window) < header_length \/ RFindBytes(window, header) = -1
        THEN [a EXCEPT !.pos = pos, !.archive = archive]
        ELSE IF ~gz /\ Len(candidate) < 5
        THEN \* any([...]) evaluates every test: the validator is called on a
             \* candidate with no descriptor byte and int('', 16) raises.
             [a EXCEPT !.status = "ValueError", !.pos = pos, !.archive = archive]
        ELSE IF \/ header_pos <= 0
                \/ Len(archive) < header_length
                \/ Len(archive) - header_pos < header_length
                \/ ~(IF gz THEN _is_valid_gzip_header(candidate)
                           ELSE _is_valid_zstd_header(candidate))
        THEN [a EXCEPT !.pos = pos, !.archive = archive]
        ELSE [a EXCEPT !.pos = pos,
                       !.archive = Slice(archive, header_pos, Len(archive)),
                       !.start_offset = a.end_offset,
                       !.end_offset = a.end_offset + header_pos,
                       !.yielded = Append(@, [archive |-> Slice(archive, 0, header_pos),
                                              start_offset |-> a.end_offset,
                                              end_offset |-> a.end_offset + header_pos])]

(***************************************************************************)
(* _batch_iterator and the key extractor                                   *)
(***************************************************************************)
DEFAULT_CSV_COLUMN == 0

\* bytes.strip() of ASCII white space (space, \t, \n, \v, \f, \r).
RECURSIVE Strip(_)
Strip(data) ==
    LET ws == {9, 10, 11, 12, 13, 32}
    IN  IF Len(data) > 0 /\ data[1] \in ws THEN Strip(Tail(data))
        ELSE IF Len(data) > 0 /\ data[Len(data)] \in ws
        THEN Strip(SubSeq(data, 1, Len(data) - 1))
        ELSE data

\* _batch_iterator without its final `if items: yield items`.
RECURSIVE _batch_iterator_no_tail(_, _, _)
_batch_iterator_no_tail(iterator, decode_lines, batch_size) ==
    LET item(i) == IF decode_lines THEN Strip(iterator[i]) ELSE iterator[i]
    IN  IF batch_size >= 1 /\ Len(iterator) >= batch_size
        THEN <<[i \in 1..batch_size |-> item(i)]>>
                 \o _batch_iterator_no_tail(
                        SubSeq(iterator, batch_size + 1, Len(iterator)),
                        decode_lines, batch_size)
        ELSE <<>>

\* _batch_iterator yielding once len(items) exceeds batch_size.
RECURSIVE _batch_iterator_late(_, _, _)
_batch_iterator_late(iterator, decode_lines, batch_size) ==
    LET item(i) == IF decode_lines THEN Strip(iterator[i]) ELSE iterator[i]
    IN  IF Len(iterator) = 0 THEN <<>>
        ELSE IF Len(iterator) >= batch_size + 1
        THEN <<[i \in 1..(batch_size + 1) |-> item(i)]>>
                 \o _batch_iterator_late(
                        SubSeq(iterator, batch_size + 2, Len(iterator)),
                        decode_lines, batch_size)
        ELSE <<[i \in 1..Len(iterator) |-> item(i)]>>

\* The batches _batch_iterator yields over the items left in its iterator.
RECURSIVE _batch_iterator(_, _, _)
_batch_iterator(iterator, decode_lines, batch_size) ==
    LET item(i) == IF decode_lines THEN Strip(iterator[i]) ELSE iterator[i]
    IN  IF Len(iterator) = 0 THEN <<>>
        ELSE IF batch_size >= 1 /\ Len(iterator) >= batch_size
        THEN <<[i \in 1..batch_size |-> item(i)]>>
                 \o _batch_iterator(SubSeq(iterator, batch_size + 1, Len(iterator)),
                                    decode_lines, batch_size)
        ELSE <<[i \in 1..Len(iterator) |-> item(i)]>>

\* csv.reader (excel dialect: quotechar ", doublequote, not strict) reading
\* character c in parse state p; c = 0 is the end-of-line marker the reader
\* feeds itself after the characters of each line.
parse_save_field(p) == [p EXCEPT !.fields = Append(@, p.field), !.field = <<>>]

parse_process_char(p, c, delimiter) ==
    LET newline == c \in {10, 13, 0}
        after_newline == IF c = 0 THEN "START_RECORD" ELSE "EAT_CRNL"
        add == [p EXCEPT !.field = Append(@, c)]
        start_field ==
            IF newline THEN [parse_save_field(p) EXCEPT !.state = after_newline]
            ELSE IF c = 34 THEN [p EXCEPT !.state = "IN_QUOTED_FIELD"]
            ELSE IF c = delimiter
            THEN [parse_save_field(p) EXCEPT !.state = "START_FIELD"]
            ELSE [add EXCEPT !.state = "IN_FIELD"]
    IN  CASE p.state = "START_RECORD" ->
                 IF c = 0 THEN p
                 ELSE IF c \in {10, 13} THEN [p EXCEPT !.state = "EAT_CRNL"]
                 ELSE start_field
          [] p.state = "START_FIELD" -> start_field
          [] p.state = "IN_FIELD" ->
                 IF newline THEN [parse_save_field(p) EXCEPT !.state = after_newline]
                 ELSE IF c = delimiter
                 THEN [parse_save_field(p) EXCEPT !.state = "START_FIELD"]
                 ELSE add
          [] p.state = "IN_QUOTED_FIELD" ->
                 IF c = 0 THEN p
                 ELSE IF c = 34 THEN [p EXCEPT !.state = "QUOTE_IN_QUOTED_FIELD"]
                 ELSE add
          [] p.state = "QUOTE_IN_QUOTED_FIELD" ->
                 IF c = 34 THEN [add EXCEPT !.state = "IN_QUOTED_FIELD"]
                 ELSE IF c = delimiter
                 THEN [parse_save_field(p) EXCEPT !.state = "START_FIELD"]
                 ELSE IF newline
                 THEN [parse_save_field(p) EXCEPT !.state = after_newline]
                 ELSE [add EXCEPT !.state = "IN_FIELD"]
          [] p.state = "EAT_CRNL" ->
                 IF c \in {10, 13} THEN p
                 ELSE IF c = 0 THEN [p EXCEPT !.state = "START_RECORD"]
                 ELSE [p EXCEPT !.state = "Error"]
          [] OTHER -> p

\* The element of a one-element set; {F(v) : v \in {e}} has e evaluated once.
Once(S) == CHOOSE r \in S : TRUE

\* The characters of line from the j-th on, then the end-of-line marker.
RECURSIVE parse_line(_, _, _, _)
parse_line(p, line, j, delimiter) ==
    IF j > Len(line) THEN parse_process_char(p, 0, delimiter)
    ELSE Once({parse_line(q, line, j + 1, delimiter) :
                   q \in {parse_process_char(p, line[j], delimiter)}})

\* One call of the reader's __next__ with lines[i] the next line of its input:
\* lines are read until the parse is back at the start of a record.  line is
\* the number of the last line read.
RECURSIVE Reader_iternext(_, _, _, _)
Reader_iternext(lines, i, p, delimiter) ==
    IF i > Len(lines)
    THEN IF Len(p.field) # 0 \/ p.state = "IN_QUOTED_FIELD"
         THEN [kind |-> "row", fields |-> parse_save_field(p).fields,
               line |-> Len(lines), next |-> i]
         ELSE [kind |-> "StopIteration", fields |-> <<>>, line |-> 0, next |-> i]
    ELSE Once({IF q.state = "Error"
               THEN [kind |-> "Error", fields |-> <<>>, line |-> i, next |-> i + 1]
               ELSE IF q.state = "START_RECORD"
               THEN [kind |-> "row", fields |-> q.fields, line |-> i, next |-> i + 1]
               ELSE Reader_iternext(lines, i + 1, q, delimiter) :
                   q \in {parse_line(p, lines[i], 1, delimiter)}})

\* The rows csv.reader yields over lines from the i-th on, up to the end of
\* the lines or to the reader's error.
RECURSIVE csv_reader_from(_, _, _)
csv_reader_from(lines, i, delimiter) ==
    Once({IF r.kind = "StopIteration" THEN [rows |-> <<>>, error |-> FALSE]
          ELSE IF r.kind = "Error" THEN [rows |-> <<>>, error |-> TRUE]
          ELSE Once({[rows |-> <<[fields |-> r.fields, line |-> r.line]>> \o rest.rows,
                      error |-> rest.error] :
                         rest \in {csv_reader_from(lines, r.next, delimiter)}}) :
              r \in {Reader_iternext(lines, i,
                         [state |-> "START_RECORD", fields |-> <<>>, field |-> <<>>],
                         delimiter)}})

csv_reader(lines, delimiter) ==
    Once({csv_reader_from(stream, 1, delimiter) : stream \in {lines}})

\* _extract_keys_from_csv: the column-th field of the first row csv.reader
\* gives for the line, or a failure.
_extract_keys_from_csv(line, column, delimiter) ==
    LET parsed == csv_reader(<<line>>, delimiter)
    IN  IF Len(parsed.rows) >= 1 /\ column + 1 <= Len(parsed.rows[1].fields)
        THEN [ok |-> TRUE, key |-> parsed.rows[1].fields[column + 1]]
        ELSE [ok |-> FALSE, key |-> <<>>]

\* LineStart taking line_end, the offset after the i-th line, for line_start.
RECURSIVE LineStartIsLineEnd(_, _)
LineStartIsLineEnd(batch, i) ==
    IF i <= 0 THEN 0 ELSE LineStartIsLineEnd(batch, i - 1) + Len(batch[i])

\* line_start of the i-th line of a frame's lines (lines 358-359, 723-724).
RECURSIVE LineStart(_, _)
LineStart(batch, i) == IF i <= 1 THEN 0 ELSE LineStart(batch, i - 1) + Len(batch[i - 1])

(***************************************************************************)
(* index_csv_file                                                          *)
(***************************************************************************)
NoIndexer == [status |-> "off", output_file |-> <<>>, indexed |-> 0]

\* Lines 351-365: decompress one yielded frame and write an index entry for
\* every row csv.reader gives over its lines; current_line is the last line
\* the reader took for the row.  The entries of the rows before a failure
\* are written.
index_csv_file_frame(x, triple, compression, column, last) ==
    LET dec == _open_compressed_file(triple.archive, compression)
        lines == Lines(dec.data)
        parsed == csv_reader(lines, DEFAULT_CSV_DELIMITER)
        rows == parsed.rows
        current_line == [i \in 1..Len(rows) |-> lines[rows[i].line]]
        bad == {i \in 1..Len(rows) : column + 1 > Len(rows[i].fields)}
        written == IF bad = {} THEN Len(rows)
                   ELSE (CHOOSE i \in bad : \A j \in bad : i <= j) - 1
        entry(i) == rows[i].fields[column + 1] \o <<DEFAULT_CSV_DELIMITER>>
                        \o Decimal(triple.start_offset) \o <<DEFAULT_CSV_DELIMITER>>
                        \o Decimal(triple.end_offset - triple.start_offset)
                        \o <<DEFAULT_CSV_DELIMITER>> \o Decimal(LineStart(current_line, i))
                        \o <<DEFAULT_CSV_DELIMITER>> \o Decimal(Len(current_line[i]))
                        \o <<_LINE_TERMINATOR>>
        output_file == x.output_file \o Concat([i \in 1..written |-> entry(i)])
    IN  IF ~dec.ok THEN [x EXCEPT !.status = "DecodeError"]
        ELSE IF bad # {}
        THEN [x EXCEPT !.status = "IndexError", !.output_file = output_file]
        ELSE IF parsed.error
        THEN [x EXCEPT !.status = "csv.Error", !.output_file = output_file]
        ELSE [x EXCEPT !.status = IF last THEN "done" ELSE "indexing",
                       !.indexed = @ + 1,
                       !.output_file = output_file]

(***************************************************************************)
(* _repack                                                                 *)
(***************************************************************************)
NoRepack ==
    [status |-> "off", fin |-> <<>>, chunk_size |-> 1,
     output_compression |-> "gzip", column |-> DEFAULT_CSV_COLUMN,
     lines |-> <<>>, fout |-> <<>>, index_fout |-> <<>>,
     start_offset |-> 0, end_offset |-> 0, compressed_chunk |-> FALSE,
     chunk |-> <<>>, keys |-> <<>>, line_indexes |-> <<>>, frames |-> <<>>]

\* Lines 706-712: detect the input's compression and open the reader.
_repack_open(r) ==
    LET compression == _determine_compression_from_header(r.fin)
        dec == _open_compressed_file(r.fin, compression)
    IN  IF compression \notin SUPPORTED_COMPRESSIONS
           \/ r.output_compression \notin SUPPORTED_COMPRESSIONS
        THEN [r EXCEPT !.status = "AssertionError"]
        ELSE IF ~dec.ok THEN [r EXCEPT !.status = "DecodeError"]
        ELSE [r EXCEPT !.status = "running", !.lines = Lines(dec.data)]

\* _repack_write_frame writing a batch's frame only when the next batch
\* comes: the data sink lags one frame behind.
_repack_write_frame_late(r) ==
    LET batch == Head(_batch_iterator(r.lines, FALSE, r.chunk_size))
        ex == [i \in 1..Len(batch) |->
                  _extract_keys_from_csv(batch[i], r.column, DEFAULT_CSV_DELIMITER)]
        chunk == CompressedFrame(r.output_compression, Concat(batch))
    IN  IF \E i \in 1..Len(batch) : ~ex[i].ok
        THEN [r EXCEPT !.status = "IndexError", !.compressed_chunk = TRUE]
        ELSE [r EXCEPT !.status = "frame_written", !.compressed_chunk = TRUE,
                       !.keys = [i \in 1..Len(batch) |-> ex[i].key],
                       !.line_indexes =
                           [i \in 1..Len(batch) |->
                               <<DEFAULT_CSV_DELIMITER>> \o Decimal(LineStart(batch, i))
                                   \o <<DEFAULT_CSV_DELIMITER>> \o Decimal(Len(batch[i]))],
                       !.chunk = chunk,
                       !.fout = @ \o r.chunk,
                       !.lines = SubSeq(@, Len(batch) + 1, Len(@))]

\* _repack_write_frame writing, when the extractor fails, the frame of the
\* lines that came before the failing one.
_repack_write_frame_partial(r) ==
    LET batch == Head(_batch_iterator(r.lines, FALSE, r.chunk_size))
        ex == [i \in 1..Len(batch) |->
                  _extract_keys_from_csv(batch[i], r.column, DEFAULT_CSV_DELIMITER)]
        chunk == CompressedFrame(r.output_compression, Concat(batch))
        bad == {i \in 1..Len(batch) : ~ex[i].ok}
        first == CHOOSE i \in bad : \A j \in bad : i <= j
    IN  IF bad # {}
        THEN [r EXCEPT !.status = "IndexError", !.compressed_chunk = TRUE,
                       !.fout = @ \o CompressedFrame(r.output_compression,
                                         Concat(SubSeq(batch, 1, first - 1)))]
        ELSE [r EXCEPT !.status = "frame_written", !.compressed_chunk = TRUE,
                       !.keys = [i \in 1..Len(batch) |-> ex[i].key],
                       !.line_indexes =
                           [i \in 1..Len(batch) |->
                               <<DEFAULT_CSV_DELIMITER>> \o Decimal(LineStart(batch, i))
                                   \o <<DEFAULT_CSV_DELIMITER>> \o Decimal(Len(batch[i]))],
                       !.chunk = chunk,
                       !.fout = @ \o chunk,
                       !.lines = SubSeq(@, Len(batch) + 1, Len(@))]

\* Lines 713-730: take the next batch, compress it into one frame and write
\* the frame to the data sink.
_repack_write_frame(r) ==
    LET batch == Head(_batch_iterator(r.lines, FALSE, r.chunk_size))
        ex == [i \in 1..Len(batch) |->
                  _extract_keys_from_csv(batch[i], r.column, DEFAULT_CSV_DELIMITER)]
        chunk == CompressedFrame(r.output_compression, Concat(batch))
    IN  IF \E i \in 1..Len(batch) : ~ex[i].ok
        THEN [r EXCEPT !.status = "IndexError", !.compressed_chunk = TRUE]
        ELSE [r EXCEPT !.status = "frame_written", !.compressed_chunk = TRUE,
                       !.keys = [i \in 1..Len(batch) |-> ex[i].key],
                       !.line_indexes =
                           [i \in 1..Len(batch) |->
                               <<DEFAULT_CSV_DELIMITER>> \o Decimal(LineStart(batch, i))
                                   \o <<DEFAULT_CSV_DELIMITER>> \o Decimal(Len(batch[i]))],
                       !.chunk = chunk,
                       !.fout = @ \o chunk,
                       !.lines = SubSeq(@, Len(batch) + 1, Len(@))]

\* _repack_write_index without `start_offset = end_offset`.
_repack_write_index_stale_start(r) ==
    LET start_offset == r.start_offset
        end_offset == start_offset + Len(r.chunk)
        entry(i) == r.keys[i] \o <<DEFAULT_CSV_DELIMITER>> \o Decimal(start_offset)
                        \o <<DEFAULT_CSV_DELIMITER>>
                        \o Decimal(end_offset - start_offset)
                        \o r.line_indexes[i] \o <<_LINE_TERMINATOR>>
    IN  [r EXCEPT !.status = "running",
                  !.start_offset = start_offset, !.end_offset = end_offset,
                  !.index_fout = @ \o Concat([i \in 1..Len(r.keys) |-> entry(i)]),
                  !.frames = Append(@, [frame_start |-> start_offset,
                                        frame_len |-> end_offset - start_offset,
                                        records |-> Len(r.keys)])]

\* Lines 732-738: advance the frame offsets and write the batch's index entries.
_repack_write_index(r) ==
    LET start_offset == r.end_offset
        end_offset == start_offset + Len(r.chunk)
        entry(i) == r.keys[i] \o <<DEFAULT_CSV_DELIMITER>> \o Decimal(start_offset)
                        \o <<DEFAULT_CSV_DELIMITER>>
                        \o Decimal(end_offset - start_offset)
                        \o r.line_indexes[i] \o <<_LINE_TERMINATOR>>
    IN  [r EXCEPT !.status = "running",
                  !.start_offset = start_offset, !.end_offset = end_offset,
                  !.index_fout = @ \o Concat([i \in 1..Len(r.keys) |-> entry(i)]),
                  !.frames = Append(@, [frame_start |-> start_offset,
                                        frame_len |-> end_offset - start_offset,
                                        records |-> Len(r.keys)])]

\* Lines 740-748: after the last batch.  With no batch at all, fout is rebound
\* to a fresh BytesIO, so nothing reaches the caller's sink, and .close() is
\* called on the int that write() returns.
_repack_close(r) ==
    IF ~r.compressed_chunk
    THEN [r EXCEPT !.status = "AttributeError"]
    ELSE [r EXCEPT !.status = "done"]

(***************************************************************************)
(* sort_file and search                                                    *)
(***************************************************************************)
\* The maximum size of the index to load in memory, in KiB.
_DEFAULT_BUFFER_SIZE == 1024

\* The order of `sort --field-separator=| --key=1,1` under LC_ALL=C: by the
\* first field, ties broken by the whole line.
KeyOf(line) == Head(Split(line, DEFAULT_CSV_DELIMITER))

LineLess(a, b) ==
    \/ BytesLess(KeyOf(a), KeyOf(b))
    \/ KeyOf(a) = KeyOf(b) /\ BytesLess(a, b)

RECURSIVE Insert(_, _)
Insert(line, sorted) ==
    IF Len(sorted) = 0 THEN <<line>>
    ELSE IF LineLess(Head(sorted), line)
    THEN <<Head(sorted)>> \o Insert(line, Tail(sorted))
    ELSE <<line>> \o sorted

RECURSIVE SortLines(_)
SortLines(lines) ==
    IF Len(lines) = 0 THEN <<>> ELSE Insert(Head(lines), SortLines(Tail(lines)))

\* sort_file: the file's lines in sorted order.
sort_file(data) == Concat(SortLines(Lines(data)))

NoLookup ==
    [status |-> "off", index_file |-> <<>>, key |-> <<>>,
     output_stream |-> <<>>]

\* Lines 668-685 of search: the ranged read of one frame and the slice of
\* one record, from the fields the binary search returned.
search_output(s, rest, data_file) ==
    IF Len(rest) # 4 THEN [s EXCEPT !.status = "ValueError"]
    ELSE LET chunk_offset == ParseInt(rest[1])
             chunk_len == ParseInt(rest[2])
             line_offset == ParseInt(rest[3])
             line_len == ParseInt(rest[4])
             chunk == Slice(data_file, chunk_offset, chunk_offset + chunk_len)
             compression == _determine_compression_from_header(data_file)
             dec == _open_compressed_file(chunk, compression)
         IN  IF ~dec.ok THEN [s EXCEPT !.status = "DecodeError"]
             ELSE [s EXCEPT !.status = "done",
                            !.output_stream =
                                @ \o Slice(dec.data, line_offset, line_offset + line_len)]

(***************************************************************************)
(* _scan_index and retrieve                                                *)
(***************************************************************************)
\* The maximum number of records to retrieve in a single batch.
_MAX_RECORDS_PER_BATCH == 5000

\* The rows csv.reader yields over what is left to read of the index stream.
IndexRows(index_fin) ==
    LET rows == csv_reader(Lines(index_fin), DEFAULT_CSV_DELIMITER).rows
    IN  [i \in 1..Len(rows) |-> rows[i].fields]

\* The distinct frame offsets of rows, in order of first appearance.
RECURSIVE GroupOffsets(_)
GroupOffsets(rows) ==
    IF Len(rows) = 0 THEN <<>>
    ELSE LET first == ParseInt(Head(rows)[2])
         IN  <<first>> \o SelectSeq(GroupOffsets(Tail(rows)), LAMBDA o : o # first)

\* _scan_index: the rows whose key is one of keys, grouped by frame offset.
\* It reads the index stream from its current position to its end.
_scan_index(keys, index_fin) ==
    LET wanted == {keys[i] : i \in 1..Len(keys)}
        rows == SelectSeq(IndexRows(index_fin), LAMBDA row : row[1] \in wanted)
        offsets == GroupOffsets(rows)
    IN  [g \in 1..Len(offsets) |->
            SelectSeq(rows, LAMBDA row : ParseInt(row[2]) = offsets[g])]

\* A stream is its content and the position reached in it: keys_tell counts
\* the key lines read, index_tell the index bytes read.
NoRetrieve ==
    [status |-> "off", keys_fin |-> <<>>, keys_tell |-> 0, file |-> <<>>,
     index_fin |-> <<>>, index_tell |-> 0, output_stream |-> <<>>]

\* Lines 475-489: the records of one group, read from the group's frame.
RetrieveGroup(group, file, compression) ==
    LET start_offset == ParseInt(group[1][2])
        offset_length == ParseInt(group[1][3])
        dec == _open_compressed_file(
                   Slice(file, start_offset, start_offset + offset_length), compression)
    IN  [ok |-> dec.ok,
         data |-> Concat([i \in 1..Len(group) |->
                     Slice(dec.data, ParseInt(group[i][4]),
                           ParseInt(group[i][4]) + ParseInt(group[i][5]))])]

\* The key lines not read yet.
KeysLeft(t) == SubSeq(t.keys_fin, t.keys_tell + 1, Len(t.keys_fin))

\* Lines 472-489: one batch of keys: scan what is left to read of the index
\* stream, which leaves it at its end, then write the records of every group.
retrieve_batch(t) ==
    LET keys == Head(_batch_iterator(KeysLeft(t), TRUE, _MAX_RECORDS_PER_BATCH))
        keys_idx == _scan_index(keys, Slice(t.index_fin, t.index_tell, Len(t.index_fin)))
        compression == _determine_compression_from_header(t.file)
        got == [g \in 1..Len(keys_idx) |-> RetrieveGroup(keys_idx[g], t.file, compression)]
        scanned == [t EXCEPT !.keys_tell = @ + Len(keys),
                             !.index_tell = Len(t.index_fin)]
    IN  IF \E g \in 1..Len(got) : ~got[g].ok
        THEN [scanned EXCEPT !.status = "DecodeError"]
        ELSE [scanned EXCEPT !.output_stream =
                                 @ \o Concat([g \in 1..Len(got) |-> got[g].data])]

(***************************************************************************)
(* Inputs of the repacker                                                  *)
(***************************************************************************)
\* Most records an input holds, and the largest chunk size.
MaxRecords == 3
MaxChunkSize == 3

\* Records a|x, ab|y, b|zz and a|w, each with its terminator.
RecordUniverse ==
    << <<97, 124, 120, 10>>, <<97, 98, 124, 121, 10>>,
       <<98, 124, 122, 122, 10>>, <<97, 124, 119, 10>> >>

RecordSeqs ==
    UNION {[1..n -> 1..Len(RecordUniverse)] : n \in 0..MaxRecords}

RecordBytes(rs) == Concat([i \in 1..Len(rs) |-> RecordUniverse[rs[i]]])

\* A compressed input holding the records rs, or the zero-byte input.
RepackInputs ==
    {CompressedFrame(c, RecordBytes(rs)) : c \in SUPPORTED_COMPRESSIONS, rs \in RecordSeqs}
        \cup {<<>>}

(***************************************************************************)
(* The repack specification: repack, sort the index, search one key        *)
(***************************************************************************)
InitRepack ==
    /\ \E x \in RepackInputs, n \in 1..MaxChunkSize, c \in SUPPORTED_COMPRESSIONS :
           rp = [NoRepack EXCEPT !.status = "idle", !.fin = x, !.chunk_size = n,
                                 !.output_compression = c]
    /\ bs = NoSearch
    /\ sr = NoLookup
    /\ ia = NoArchives
    /\ ix = NoIndexer
    /\ rt = NoRetrieve
    /\ fn = NoCall
    /\ cli = NoCommand

RepackOpen ==
    /\ rp.status = "idle"
    /\ rp' = _repack_open(rp)
    /\ UNCHANGED <<bs, sr, ia, ix, rt, fn, cli>>

RepackWriteFrame ==
    /\ rp.status = "running"
    /\ _batch_iterator(rp.lines, FALSE, rp.chunk_size) # <<>>
    /\ rp' = _repack_write_frame(rp)
    /\ UNCHANGED <<bs, sr, ia, ix, rt, fn, cli>>

RepackWriteIndex ==
    /\ rp.status = "frame_written"
    /\ rp' = _repack_write_index(rp)
    /\ UNCHANGED <<bs, sr, ia, ix, rt, fn, cli>>

RepackClose ==
    /\ rp.status = "running"
    /\ _batch_iterator(rp.lines, FALSE, rp.chunk_size) = <<>>
    /\ rp' = _repack_close(rp)
    /\ UNCHANGED <<bs, sr, ia, ix, rt, fn, cli>>

SortFile ==
    /\ rp.status = "done"
    /\ sr.status = "off"
    /\ sr' = [sr EXCEPT !.status = "sorted", !.index_file = sort_file(rp.index_fout)]
    /\ UNCHANGED <<bs, rp, ia, ix, rt, fn, cli>>

\* Lines 657-666 of search: measure the index and start the binary search.
SearchStart ==
    /\ sr.status = "sorted"
    /\ \E k \in 1..Len(KeyUniverse) :
           /\ bs' = _binary_search_begin(KeyUniverse[k], sr.index_file,
                                         Len(sr.index_file), _DEFAULT_BUFFER_SIZE)
           /\ sr' = [sr EXCEPT !.status = "searching", !.key = KeyUniverse[k]]
    /\ UNCHANGED <<rp, ia, ix, rt, fn, cli>>

SearchOutput ==
    /\ sr.status = "searching"
    /\ bs.status = "found"
    /\ sr' = search_output(sr, bs.rest, rp.fout)
    /\ UNCHANGED <<bs, rp, ia, ix, rt, fn, cli>>

SearchFail ==
    /\ sr.status = "searching"
    /\ bs.status \in {"KeyError", "AssertionError", "ValueError"}
    /\ sr' = [sr EXCEPT !.status = bs.status]
    /\ UNCHANGED <<bs, rp, ia, ix, rt, fn, cli>>

(***************************************************************************)
(* Inputs of the frame detector and of the indexer                         *)
(***************************************************************************)
\* Most segments an input is made of.
MaxSegments == 3

\* A time before _OLDEST_UNIX_TIMESTAMP, as gzip -n writes it.
NoTimestamp == 0

\* The lines a|"x and c|z" and b|w: the first two are one CSV row whose second
\* field is quoted and holds a line break.
QuotedRecords == <<97, 124, 34, 120, 10, 99, 124, 122, 34, 10, 98, 124, 119, 10>>

\* Segments of a gzip input: a member written now, a member with no
\* timestamp, a member of two records, a stray magic, a filler byte and a
\* member with a quoted field.
GzipSegments ==
    << GzipMember(RecordUniverse[1], Now),
       GzipMember(RecordUniverse[2], NoTimestamp),
       GzipMember(RecordUniverse[3] \o RecordUniverse[4], Now),
       _GZIP_HEADER, <<120>>,
       GzipMember(QuotedRecords, Now) >>

\* Segments of a zstd input: frames whose descriptor passes and fails the
\* validator, a stray magic, a filler byte and a frame with a quoted field.
ZstdWith(descriptor, data) ==
    _ZSTD_HEADER \o <<descriptor, 88>> \o data \o <<1, 0, 0>>

ZstdSegments ==
    << ZstdWith(4, RecordUniverse[1] \o RecordUniverse[2] \o RecordUniverse[3]),
       ZstdFrame(RecordUniverse[2] \o RecordUniverse[4] \o RecordUniverse[1]),
       ZstdWith(36, RecordUniverse[3] \o RecordUniverse[4] \o RecordUniverse[3]),
       _ZSTD_HEADER, <<120>>,
       ZstdFrame(QuotedRecords) >>

SegmentSeqs == UNION {[1..n -> 1..Len(GzipSegments)] : n \in 0..MaxSegments}

ArchiveInput(kind, ss) ==
    Concat([i \in 1..Len(ss) |->
               IF kind = "gzip" THEN GzipSegments[ss[i]] ELSE ZstdSegments[ss[i]]])

BufferSizes == {1, 7, 15, 40}

(***************************************************************************)
(* The indexing specification: _iterate_archives alone, or driven by       *)
(* index_csv_file                                                          *)
(***************************************************************************)
InitIndex ==
    /\ \E kind \in SUPPORTED_COMPRESSIONS, ss \in SegmentSeqs, B \in BufferSizes,
          c \in SUPPORTED_COMPRESSIONS, indexing \in BOOLEAN :
           /\ ia = [NoArchives EXCEPT !.status = "idle",
                                      !.fin = ArchiveInput(kind, ss),
                                      !.buffer_size = B,
                                      !.compression = IF indexing THEN "none" ELSE c]
           /\ ix = [NoIndexer EXCEPT !.status = IF indexing THEN "idle" ELSE "off"]
           /\ indexing => c = "gzip"
    /\ bs = NoSearch
    /\ rp = NoRepack
    /\ sr = NoLookup
    /\ rt = NoRetrieve
    /\ fn = NoCall
    /\ cli = NoCommand

\* Lines 345-350 of index_csv_file: detect the compression, create the iterator.
IndexOpen ==
    /\ ix.status = "idle"
    /\ ix' = [ix EXCEPT !.status = "indexing"]
    /\ ia' = [ia EXCEPT !.compression = _determine_compression_from_header(ia.fin)]
    /\ UNCHANGED <<bs, rp, sr, rt, fn, cli>>

IterateArchivesBegin ==
    /\ ia.status = "idle"
    /\ ix.status \in {"off", "indexing"}
    /\ ia' = _iterate_archives_begin(ia)
    /\ UNCHANGED <<bs, rp, sr, ix, rt, fn, cli>>

IterateArchivesLoop ==
    /\ ia.status = "running"
    /\ ix.status = "off" \/ (ix.status = "indexing" /\ ix.indexed = Len(ia.yielded))
    /\ ia' = _iterate_archives_loop(ia)
    /\ UNCHANGED <<bs, rp, sr, ix, rt, fn, cli>>

IndexFrame ==
    /\ ix.status = "indexing"
    /\ ix.indexed < Len(ia.yielded)
    /\ ix' = index_csv_file_frame(ix, ia.yielded[ix.indexed + 1], ia.compression,
                                  DEFAULT_CSV_COLUMN, ia.status = "done")
    /\ UNCHANGED <<bs, rp, sr, ia, rt, fn, cli>>

NextIndex == IndexOpen \/ IterateArchivesBegin \/ IterateArchivesLoop \/ IndexFrame

SpecIndex == InitIndex /\ [][NextIndex]_vars

(***************************************************************************)
(* The retrieve specification: retrieve on a repacked file and its index   *)
(***************************************************************************)
\* The repacker run to its end.
RECURSIVE RepackRun(_)
RepackRun(r) ==
    IF r.status = "idle" THEN RepackRun(_repack_open(r))
    ELSE IF r.status = "running"
    THEN IF _batch_iterator(r.lines, FALSE, r.chunk_size) # <<>>
         THEN LET f == _repack_write_frame(r)
              IN  IF f.status = "frame_written"
                  THEN RepackRun(_repack_write_index(f))
                  ELSE f
         ELSE _repack_close(r)
    ELSE r

\* The records a|x, ab|y, b|zz repacked in frames of chunk_size records.
Repacked(chunk_size) ==
    RepackRun([NoRepack EXCEPT !.status = "idle",
                               !.fin = CompressedFrame("gzip", RecordBytes(<<1, 2, 3>>)),
                               !.chunk_size = chunk_size])

\* Most batches a key list fills.
MaxBatches == 2

\* Lengths of the key list: within one batch, and one key into each later batch.
KeyCounts ==
    {1, 2} \cup {b * _MAX_RECORDS_PER_BATCH : b \in 1..(MaxBatches - 1)}
           \cup {b * _MAX_RECORDS_PER_BATCH + 1 : b \in 1..MaxBatches}

\* A key list of n lines: key number first, then key c (which no record has)
\* repeated, then key number last.
KeyList(n, first, last) ==
    [i \in 1..n |->
        KeyUniverse[IF i = 1 THEN first ELSE IF i = n THEN last ELSE 4]
            \o <<_LINE_TERMINATOR>>]

InitRetrieve ==
    /\ \E n \in KeyCounts, first \in 1..Len(KeyUniverse), last \in 1..Len(KeyUniverse),
          chunk_size \in 1..MaxChunkSize :
           rt = [NoRetrieve EXCEPT !.status = "idle",
                                   !.keys_fin = KeyList(n, first, last),
                                   !.file = Repacked(chunk_size).fout,
                                   !.index_fin = Repacked(chunk_size).index_fout]
    /\ bs = NoSearch
    /\ rp = NoRepack
    /\ sr = NoLookup
    /\ ia = NoArchives
    /\ ix = NoIndexer
    /\ fn = NoCall
    /\ cli = NoCommand

\* Lines 470-471: open the data file.
RetrieveOpen ==
    /\ rt.status = "idle"
    /\ rt' = [rt EXCEPT !.status = "running"]
    /\ UNCHANGED <<bs, rp, sr, ia, ix, fn, cli>>

RetrieveBatch ==
    /\ rt.status = "running"
    /\ _batch_iterator(KeysLeft(rt), TRUE, _MAX_RECORDS_PER_BATCH) # <<>>
    /\ rt' = retrieve_batch(rt)
    /\ UNCHANGED <<bs, rp, sr, ia, ix, fn, cli>>

RetrieveReturn ==
    /\ rt.status = "running"
    /\ _batch_iterator(KeysLeft(rt), TRUE, _MAX_RECORDS_PER_BATCH) = <<>>
    /\ rt' = [rt EXCEPT !.status = "done"]
    /\ UNCHANGED <<bs, rp, sr, ia, ix, fn, cli>>

NextRetrieve == RetrieveOpen \/ RetrieveBatch \/ RetrieveReturn

SpecRetrieve == InitRetrieve /\ [][NextRetrieve]_vars

(***************************************************************************)
(* The search specification                                                *)
(***************************************************************************)
InitSearch ==
    \E e \in SortedEntries, k \in 1..Len(KeyUniverse), T \in {0, 1} :
        /\ bs = [NoSearch EXCEPT !.status = "idle", !.key = KeyUniverse[k],
                                 !.index = IndexBytes(e),
                                 !.fsize = Len(IndexBytes(e)), !.buffer_size = T]
        /\ rp = NoRepack
        /\ sr = NoLookup
        /\ ia = NoArchives
        /\ ix = NoIndexer
        /\ rt = NoRetrieve
        /\ fn = NoCall
        /\ cli = NoCommand

BinarySearchStart ==
    /\ bs.status = "idle"
    /\ bs' = _binary_search_begin(bs.key, bs.index, bs.fsize, bs.buffer_size)
    /\ UNCHANGED <<rp, sr, ia, ix, rt, fn, cli>>

BinarySearchLoop ==
    /\ bs.status = "running"
    /\ bs' = _binary_search_loop(bs)
    /\ UNCHANGED <<rp, sr, ia, ix, rt, fn, cli>>

NextSearch == BinarySearchStart \/ BinarySearchLoop

SpecSearch == InitSearch /\ [][NextSearch]_vars

NextRepack ==
    \/ RepackOpen \/ RepackWriteFrame \/ RepackWriteIndex \/ RepackClose
    \/ SortFile \/ SearchStart \/ BinarySearchLoop \/ SearchOutput \/ SearchFail

SpecRepack == InitRepack /\ [][NextRepack]_vars

\* Runs of the repacker (lines 698-748) together with runs of the indexer
\* (lines 330-365): the two writers of index entries.
InitFidelity == InitRepack \/ (InitIndex /\ ix.status = "idle")

NextFidelity ==
    \/ RepackOpen \/ RepackWriteFrame \/ RepackWriteIndex \/ RepackClose
    \/ NextIndex

SpecFidelity == InitFidelity /\ [][NextFidelity]_vars

(***************************************************************************)
(* The key specification: the two writers of index entries on records      *)
(* whose key column is quoted                                              *)
(***************************************************************************)
\* The records a|x, "a|b"|y and "a\nb"|z: the key of the second holds the
\* delimiter, the key of the third a line break.
QuotedKeyRecords ==
    << <<97, 124, 120, 10>>,
       <<34, 97, 124, 98, 34, 124, 121, 10>>,
       <<34, 97, 10, 98, 34, 124, 122, 10>> >>

QuotedKeyInputs ==
    {CompressedFrame(c, Concat([i \in 1..Len(rs) |-> QuotedKeyRecords[rs[i]]])) :
        c \in SUPPORTED_COMPRESSIONS,
        rs \in UNION {[1..n -> 1..Len(QuotedKeyRecords)] : n \in 1..MaxRecords}}

InitKeys ==
    /\ \/ /\ \E x \in QuotedKeyInputs, n \in 1..MaxChunkSize :
                 rp = [NoRepack EXCEPT !.status = "idle", !.fin = x, !.chunk_size = n]
          /\ ia = NoArchives
          /\ ix = NoIndexer
       \/ /\ \E x \in QuotedKeyInputs, B \in BufferSizes :
                 ia = [NoArchives EXCEPT !.status = "idle", !.fin = x,
                                         !.buffer_size = B, !.compression = "none"]
          /\ ix = [NoIndexer EXCEPT !.status = "idle"]
          /\ rp = NoRepack
    /\ bs = NoSearch
    /\ sr = NoLookup
    /\ rt = NoRetrieve
    /\ fn = NoCall
    /\ cli = NoCommand

SpecKeys == InitKeys /\ [][NextFidelity]_vars

(***************************************************************************)
(* The member specification: _iterate_archives on concatenated members     *)
(***************************************************************************)
\* The segments that are whole gzip members with a header the validator passes.
GzipMembers ==
    SelectSeq(GzipSegments,
              LAMBDA m : /\ Len(m) > _GZIP_HEADER_LENGTH
                         /\ StartsWith(m, _GZIP_HEADER)
                         /\ _is_valid_gzip_header(Slice(m, 0, _GZIP_HEADER_LENGTH)))

MemberSeqs == UNION {[1..n -> 1..Len(GzipMembers)] : n \in 1..MaxSegments}

\* fn holds the members the input was made of.
InitMembers ==
    /\ \E ms \in MemberSeqs, B \in BufferSizes :
           /\ fn = [status |-> "called", name |-> "_iterate_archives",
                    members |-> [i \in 1..Len(ms) |-> GzipMembers[ms[i]]]]
           /\ ia = [NoArchives EXCEPT
                       !.status = "idle",
                       !.fin = Concat([i \in 1..Len(ms) |-> GzipMembers[ms[i]]]),
                       !.buffer_size = B, !.compression = "gzip"]
    /\ ix = NoIndexer
    /\ bs = NoSearch
    /\ rp = NoRepack
    /\ sr = NoLookup
    /\ rt = NoRetrieve
    /\ cli = NoCommand

NextMembers == IterateArchivesBegin \/ IterateArchivesLoop

SpecMembers == InitMembers /\ [][NextMembers]_vars

(***************************************************************************)
(* The line specification: one call of _start_of_line or of _buffer_chunk  *)
(***************************************************************************)
\* Most bytes of a file.
MaxFileLen == 6

\* Files of the bytes \n and a, of every length up to MaxFileLen.
Files == UNION {[1..n -> {_LINE_TERMINATOR, 97}] : n \in 0..MaxFileLen}

\* The initial lookbehind sizes: the smallest ones, and io.DEFAULT_BUFFER_SIZE.
Lookbehinds == {1, 2, 3, 5, DEFAULT_BUFFER_SIZE}

NoLineCall ==
    [status |-> "called", name |-> "", fin |-> <<>>, seek |-> 0, tell |-> 0,
     bufsize |-> 1,
     start |-> 0, end |-> 0, pivot |-> 0, buf |-> <<>>]

\* _start_of_line is called on any file at any position, which seek keeps;
\* _buffer_chunk on a file of terminated lines with 0 <= start < end <= size
\* and a pivot in the window.
InitLines ==
    /\ \/ \E fin \in Files, P \in 0..MaxFileLen, bufsize \in Lookbehinds :
              /\ P <= Len(fin)
              /\ fn = [NoLineCall EXCEPT !.name = "_start_of_line", !.fin = fin,
                                         !.seek = P, !.tell = P,
                                         !.bufsize = bufsize]
       \/ \E fin \in Files, start \in 0..MaxFileLen, end \in 0..MaxFileLen,
             pivot \in 0..MaxFileLen :
              /\ Len(fin) > 0 /\ fin[Len(fin)] = _LINE_TERMINATOR
              /\ start < end /\ end <= Len(fin)
              /\ start <= pivot /\ pivot <= end
              /\ fn = [NoLineCall EXCEPT !.name = "_buffer_chunk", !.fin = fin,
                                         !.start = start, !.end = end,
                                         !.pivot = pivot]
    /\ bs = NoSearch
    /\ rp = NoRepack
    /\ sr = NoLookup
    /\ ia = NoArchives
    /\ ix = NoIndexer
    /\ rt = NoRetrieve
    /\ cli = NoCommand

StartOfLine ==
    /\ fn.status = "called"
    /\ fn.name = "_start_of_line"
    /\ fn' = [fn EXCEPT !.status = "returned",
                        !.tell = _start_of_line(fn.fin, fn.tell, fn.bufsize)]
    /\ UNCHANGED <<bs, rp, sr, ia, ix, rt, cli>>

\* The call and the buffer, window and pivot it returns.
BufferChunk ==
    /\ fn.status = "called"
    /\ fn.name = "_buffer_chunk"
    /\ LET r == _buffer_chunk(fn.fin, fn.start, fn.end, fn.pivot)
       IN  fn' = [fn EXCEPT !.status = "returned", !.buf = r.fin,
                            !.start = r.start, !.end = r.end, !.pivot = r.pivot]
    /\ UNCHANGED <<bs, rp, sr, ia, ix, rt, cli>>

NextLines == StartOfLine \/ BufferChunk

SpecLines == InitLines /\ [][NextLines]_vars

(***************************************************************************)
(* The validator specification: one call of a header validator             *)
(***************************************************************************)
\* struct.pack('<i', t): t as a little-endian signed 32-bit integer.
PackInt32(t) ==
    IF t >= 0 THEN LE32(t)
    ELSE LET m == (t + 2147483647) + 1
         IN  <<m % 256, (m \div 256) % 256, (m \div 65536) % 256,
               ((m \div 16777216) % 256) + 128>>

\* Timestamps around the two limits of the validator, and the extremes.
Timestamps ==
    {0, 0 - 1, 1, _OLDEST_UNIX_TIMESTAMP - 1, _OLDEST_UNIX_TIMESTAMP,
     _OLDEST_UNIX_TIMESTAMP + 1, Now - 1, Now, Now + 1, 2147483647,
     (0 - 2147483647) - 1}

\* Candidates of the gzip validator: four leading bytes, a timestamp, the
\* extra-flags byte and the OS byte, cut to 9 bytes, whole, or followed by
\* two more bytes.
GzipCandidates ==
    {[header |-> Slice(lead \o PackInt32(t) \o <<xfl, os>> \o <<120, 3>>, 0, n),
      timestamp |-> t] :
        lead \in {_GZIP_HEADER \o <<0>>, <<0, 255, 8, 31>>}, t \in Timestamps,
        xfl \in {0, 2, 255}, os \in 0..255,
        n \in {_GZIP_HEADER_LENGTH - 1, _GZIP_HEADER_LENGTH, _GZIP_HEADER_LENGTH + 2}}

\* Candidates of the zstd validator: the magic or other bytes, every
\* frame_header_descriptor, and nothing or thirteen bytes after it.
ZstdCandidates ==
    {[header |-> lead \o <<descriptor>> \o tail, timestamp |-> 0] :
        lead \in {_ZSTD_HEADER, <<0, 0, 0, 0>>}, descriptor \in 0..255,
        tail \in {<<>>, <<88, 97, 124, 120, 10, 1, 0, 0, 0, 0, 0, 0, 255>>}}

InitValidate ==
    /\ \/ \E c \in GzipCandidates :
              fn = [status |-> "called", name |-> "_is_valid_gzip_header",
                    header |-> c.header, timestamp |-> c.timestamp, result |-> "None"]
       \/ \E c \in ZstdCandidates :
              fn = [status |-> "called", name |-> "_is_valid_zstd_header",
                    header |-> c.header, timestamp |-> c.timestamp, result |-> "None"]
    /\ bs = NoSearch
    /\ rp = NoRepack
    /\ sr = NoLookup
    /\ ia = NoArchives
    /\ ix = NoIndexer
    /\ rt = NoRetrieve
    /\ cli = NoCommand

ValidateGzip ==
    /\ fn.status = "called"
    /\ fn.name = "_is_valid_gzip_header"
    /\ fn' = [fn EXCEPT !.status = "returned",
                        !.result = IF _is_valid_gzip_header(fn.header)
                                   THEN "True" ELSE "False"]
    /\ UNCHANGED <<bs, rp, sr, ia, ix, rt, cli>>

ValidateZstd ==
    /\ fn.status = "called"
    /\ fn.name = "_is_valid_zstd_header"
    /\ fn' = [fn EXCEPT !.status = "returned",
                        !.result = IF _is_valid_zstd_header(fn.header)
                                   THEN "True" ELSE "False"]
    /\ UNCHANGED <<bs, rp, sr, ia, ix, rt, cli>>

NextValidate == ValidateGzip \/ ValidateZstd

SpecValidate == InitValidate /\ [][NextValidate]_vars

(***************************************************************************)
(* The command line (cli.py), the files it names, and sort_file            *)
(***************************************************************************)
DEFAULT_CHUNK_SIZE == 5000
_MIN_CHUNK_SIZE == 100000

\* '.gzi' and '.gz'.
_GZIPI_EXTENSION == <<46, 103, 122, 105>>
GzExtension == <<46, 103, 122>>

\* A path is a byte string; None, an option that was not given, is the empty
\* one.  The paths are d.gz, o.gz, o.gzi, d.gzi, k and a name that
\* tempfile.mkstemp(prefix='gzipi') returns.
None == <<>>
DataPath == <<100>> \o GzExtension
OutputPath == <<111>> \o GzExtension
IndexPath == <<111>> \o _GZIPI_EXTENSION
DataIndexPath == <<100>> \o _GZIPI_EXTENSION
KeysPath == <<107>>
TmpPath == <<103, 122, 105, 112, 105, 95>>
Paths == {DataPath, OutputPath, IndexPath, DataIndexPath, KeysPath, TmpPath}

EndsWith(data, suffix) ==
    Len(data) >= Len(suffix)
        /\ SubSeq(data, Len(data) - Len(suffix) + 1, Len(data)) = suffix

\* str.replace(old, ''): data without the occurrences of old.
RECURSIVE Remove(_, _)
Remove(data, old) ==
    IF Len(data) < Len(old) THEN data
    ELSE IF StartsWith(data, old)
    THEN Remove(SubSeq(data, Len(old) + 1, Len(data)), old)
    ELSE <<Head(data)>> \o Remove(Tail(data), old)

\* file_path.replace('.gz', '').rsplit('.', 1)[0]
_strip_extension(file_path) ==
    LET stem == Remove(file_path, GzExtension)
        dot == RFind(stem, 46)
    IN  IF dot = -1 THEN stem ELSE Slice(stem, 0, dot)

\* A file system maps every path to a file, which exists or not.
NoFile == [exists |-> FALSE, data |-> <<>>]
File(data) == [exists |-> TRUE, data |-> data]

\* _exists / os.path.exists of a local path.
_exists(fs, path) == fs[path].exists

\* open(path, 'wb'): the file is created, or truncated.
OpenForWriting(fs, path) == [fs EXCEPT ![path] = File(<<>>)]

\* What a sink opened by smart_open.open(path, 'wb') holds once data was
\* written and the sink closed: without ignore_ext, a path ending in .gz is
\* compressed on the way.
SmartOpenWritten(path, data, ignore_ext) ==
    IF ~ignore_ext /\ EndsWith(path, GzExtension)
    THEN CompressedFrame("gzip", data) ELSE data

\* A value of args.chunk_size: an int (the default) or a str (the word of
\* the command line: --chunk-size has no type= conversion).
PyInt(n) == [type |-> "int", int |-> n, str |-> <<>>]
PyStr(s) == [type |-> "str", int |-> 0, str |-> s]

\* argparse for --chunk-size: the default when the option is absent, else the
\* word as it stands.
parse_chunk_size(word) ==
    IF word = None THEN PyInt(DEFAULT_CHUNK_SIZE) ELSE PyStr(word)

\* batch_size as _batch_iterator sees it: its only use is
\* `len(items) == batch_size` on a list of at least one item, and a str is
\* equal to no int, as 0 is equal to no such length.
BatchSizeOf(value) == IF value.type = "int" THEN value.int ELSE 0

NoArgs ==
    [input_file |-> None, output_file |-> None, index_file |-> None,
     keys |-> None, key |-> None, chunk_size |-> None]

\* The process ends: sys.exit(1), an exception nobody catches (status 1 as
\* well), or the return of the handler (status 0).
Exit(c, error) ==
    [c EXCEPT !.status = "exit", !.error = error,
              !.exit_code = IF error = "" THEN 0 ELSE 1]

\* _repack up to the call of the library (lines 216-260); yes_index and
\* yes_output are the user's answers to the two prompts.
_repack_enter(c, yes_index, yes_output) ==
    LET a == c.args
        index_file == IF a.index_file = None /\ a.output_file # None
                      THEN _strip_extension(a.output_file) \o _GZIPI_EXTENSION
                      ELSE a.index_file
    IN  IF a.input_file # None /\ ~_exists(c.fs, a.input_file)
        THEN Exit(c, "FileNotFoundError")
        ELSE IF index_file = None THEN Exit(c, "SystemExit")
        ELSE IF _exists(c.fs, index_file) /\ ~yes_index THEN Exit(c, "SystemExit")
        ELSE IF a.output_file = None THEN Exit(c, "TypeError")
        ELSE IF _exists(c.fs, a.output_file) /\ ~yes_output THEN Exit(c, "SystemExit")
        ELSE [c EXCEPT !.status = "running",
                       !.args.index_file = index_file,
                       !.fin = IF a.input_file # None THEN c.fs[a.input_file].data
                               ELSE c.stdin,
                       !.fs = OpenForWriting(OpenForWriting(c.fs, index_file),
                                             a.output_file),
                       !.opened = {index_file, a.output_file}]

\* Lines 262-275 once the library returned or raised: what it wrote is in
\* the two files; sort_file follows a return.
_repack_leave(c, r) ==
    LET fs == [c.fs EXCEPT ![c.args.index_file] = File(r.index_fout),
                           ![c.args.output_file] = File(r.fout)]
    IN  IF r.status = "done" THEN [c EXCEPT !.status = "sort_file", !.fs = fs]
        ELSE Exit([c EXCEPT !.fs = fs], r.status)

\* sort_file (lines 751-784) on the file system.  ok tells whether the
\* pipeline succeeds; a pipeline that fails has written the first n sorted
\* lines to its redirection, which opened file_path for writing.
sort_file_call(c, file_path, ok, n) ==
    LET original == c.fs[file_path]
        is_gzipped == EndsWith(file_path, GzExtension)
        dec == IF is_gzipped THEN GzipDecode(original.data)
               ELSE [ok |-> TRUE, data |-> original.data]
        sorted == SortLines(Lines(dec.data))
        succeeded == ok /\ dec.ok
        k == IF succeeded THEN Len(sorted) ELSE Min(n, Len(sorted))
        text == Concat(SubSeq(sorted, 1, k))
        written == IF is_gzipped THEN CompressedFrame("gzip", text) ELSE text
        mkstemp == [c.fs EXCEPT ![TmpPath] = File(<<>>)]
        moved == [mkstemp EXCEPT ![TmpPath] = original, ![file_path] = NoFile]
        piped == [moved EXCEPT ![file_path] = File(written)]
        finally == [piped EXCEPT ![TmpPath] = NoFile]
    IN  IF ~original.exists
        THEN Exit([c EXCEPT !.fs = mkstemp], "FileNotFoundError")
        ELSE Exit([c EXCEPT !.fs = finally, !.unsorted = original.data,
                            !.sort = IF succeeded THEN "sorted" ELSE "failed"],
                  IF succeeded THEN "" ELSE "ProcessExecutionError")

\* _index up to the call of the library (lines 68-98).
_index_enter(c, yes_index) ==
    LET a == c.args
        index_file == IF a.index_file = None /\ a.input_file # None
                      THEN _strip_extension(a.input_file) \o _GZIPI_EXTENSION
                      ELSE a.index_file
    IN  IF a.input_file # None /\ ~_exists(c.fs, a.input_file)
        THEN Exit(c, "SystemExit")
        ELSE IF index_file = None THEN Exit(c, "SystemExit")
        ELSE IF _exists(c.fs, index_file) /\ ~yes_index THEN Exit(c, "SystemExit")
        ELSE [c EXCEPT !.status = "running",
                       !.args.index_file = index_file,
                       !.fin = IF a.input_file # None THEN c.fs[a.input_file].data
                               ELSE c.stdin,
                       !.fs = OpenForWriting(c.fs, index_file),
                       !.opened = {index_file}]

\* Lines 100-106 once the library returned or raised.
_index_leave(c, a, x) ==
    LET fs == [c.fs EXCEPT ![c.args.index_file] = File(x.output_file)]
        error == IF a.status \in {"AssertionError", "ValueError"} THEN a.status
                 ELSE IF x.status \in {"DecodeError", "IndexError", "csv.Error"}
                 THEN x.status ELSE ""
    IN  IF error = "" THEN [c EXCEPT !.status = "sort_file", !.fs = fs]
        ELSE Exit([c EXCEPT !.fs = fs], error)

\* _retrieve up to the call of the library (lines 126-148).
_retrieve_enter(c) ==
    LET a == c.args
        index_file == IF a.index_file = None
                      THEN _strip_extension(a.input_file) \o _GZIPI_EXTENSION
                      ELSE a.index_file
        fs == IF a.output_file # None THEN OpenForWriting(c.fs, a.output_file)
              ELSE c.fs
        opened == IF a.output_file # None THEN {a.output_file} ELSE {}
    IN  IF ~_exists(c.fs, a.input_file) THEN Exit(c, "SystemExit")
        ELSE IF a.keys # None /\ ~_exists(c.fs, a.keys) THEN Exit(c, "SystemExit")
        ELSE IF ~_exists(fs, index_file)
        THEN Exit([c EXCEPT !.fs = fs, !.opened = opened,
                            !.args.index_file = index_file], "FileNotFoundError")
        ELSE [c EXCEPT !.status = "running",
                       !.args.index_file = index_file,
                       !.fin = IF a.keys # None THEN c.fs[a.keys].data ELSE c.stdin,
                       !.fs = fs, !.opened = opened]

\* Lines 149-152 once the library returned or raised.
_retrieve_leave(c, t) ==
    LET out == IF c.args.output_file # None
               THEN [c EXCEPT !.fs[c.args.output_file] = File(t.output_stream)]
               ELSE [c EXCEPT !.stdout = t.output_stream]
    IN  Exit(out, IF t.status = "done" THEN "" ELSE t.status)

\* _search (lines 169-176) and search up to the binary search (lines
\* 657-661): the sink is opened first, then the index is measured.
_search_enter(c) ==
    LET a == c.args
        index_file == IF a.index_file = None
                      THEN _strip_extension(a.input_file) \o _GZIPI_EXTENSION
                      ELSE a.index_file
        fs == IF a.output_file # None THEN OpenForWriting(c.fs, a.output_file)
              ELSE c.fs
        opened == IF a.output_file # None THEN {a.output_file} ELSE {}
        sunk == [c EXCEPT !.fs = fs, !.opened = opened,
                          !.args.index_file = index_file]
    IN  IF ~_exists(fs, index_file) THEN Exit(sunk, "SystemExit")
        ELSE [sunk EXCEPT !.status = "running", !.fin = fs[index_file].data]

\* Lines 668-685 of search once the binary search returned or raised; the
\* record is in the sink when the process ends.
_search_leave(c, s) ==
    LET a == c.args
        found == search_output([NoLookup EXCEPT !.status = "searching"], s.rest,
                               c.fs[a.input_file].data)
        error == IF s.status # "found" THEN s.status
                 ELSE IF ~_exists(c.fs, a.input_file) THEN "SystemExit"
                 ELSE IF found.status # "done" THEN found.status
                 ELSE ""
        out == IF a.output_file # None
               THEN [c EXCEPT !.fs[a.output_file] =
                                  File(SmartOpenWritten(a.output_file,
                                                        found.output_stream, FALSE))]
               ELSE [c EXCEPT !.stdout = found.output_stream]
    IN  IF error = "" THEN Exit(out, error) ELSE Exit(c, error)

(***************************************************************************)
(* The command-line specification: one run of a subcommand                 *)
(***************************************************************************)
\* The files a run may find: a repacked data file, its sorted index, a list
\* of two keys, and an earlier output of one byte.
DataFile == Repacked(1).fout
IndexFile == sort_file(Repacked(1).index_fout)
KeysFile == KeyUniverse[1] \o <<_LINE_TERMINATOR>> \o KeyUniverse[3] \o <<_LINE_TERMINATOR>>
EarlierOutput == <<120>>

FileAt(path) ==
    IF path = DataPath THEN DataFile
    ELSE IF path \in {IndexPath, DataIndexPath} THEN IndexFile
    ELSE IF path = KeysPath THEN KeysFile
    ELSE EarlierOutput

\* The arguments a subcommand accepts; --input-file is required by retrieve
\* and search, --key by search.
ArgsOf(command) ==
    {[NoArgs EXCEPT !.input_file = input_file, !.output_file = output_file,
                    !.index_file = index_file, !.keys = keys, !.key = key,
                    !.chunk_size = chunk_size] :
        input_file \in IF command \in {"index", "repack"} THEN {None, DataPath}
                       ELSE {DataPath},
        output_file \in IF command = "index" THEN {None} ELSE {None, OutputPath},
        index_file \in {None, IndexPath},
        keys \in IF command = "retrieve" THEN {None, KeysPath} ELSE {None},
        key \in IF command = "search" THEN {KeyUniverse[1], KeyUniverse[4]} ELSE {None},
        chunk_size \in IF command = "repack"
                       THEN {None} \cup {Decimal(n) : n \in 1..MaxChunkSize}
                       ELSE {None}}

InitCli ==
    /\ \E command \in {"index", "retrieve", "search", "repack"},
          existing \in SUBSET (Paths \ {TmpPath}) :
          \E args \in ArgsOf(command) :
              cli = [status |-> "idle", command |-> command, argv |-> args,
                     args |-> args,
                     fs |-> [p \in Paths |->
                                IF p \in existing THEN File(FileAt(p)) ELSE NoFile],
                     stdin |-> IF command = "retrieve" THEN KeysFile ELSE DataFile,
                     stdout |-> <<>>, fin |-> <<>>, opened |-> {},
                     error |-> "", exit_code |-> -1,
                     sort |-> "", unsorted |-> <<>>]
    /\ bs = NoSearch
    /\ rp = NoRepack
    /\ sr = NoLookup
    /\ ia = NoArchives
    /\ ix = NoIndexer
    /\ rt = NoRetrieve
    /\ fn = NoCall

CliIndex ==
    /\ cli.status = "idle"
    /\ cli.command = "index"
    /\ \E yes_index \in BOOLEAN : cli' = _index_enter(cli, yes_index)
    /\ IF cli'.status = "running"
       THEN /\ ia' = [NoArchives EXCEPT !.status = "idle", !.fin = cli'.fin,
                                        !.buffer_size = _MIN_CHUNK_SIZE,
                                        !.compression = "none"]
            /\ ix' = [NoIndexer EXCEPT !.status = "idle"]
       ELSE UNCHANGED <<ia, ix>>
    /\ UNCHANGED <<bs, rp, sr, rt, fn>>

CliIndexReturn ==
    /\ cli.status = "running"
    /\ cli.command = "index"
    /\ \/ ix.status \in {"done", "DecodeError", "IndexError", "csv.Error"}
       \/ ia.status \in {"AssertionError", "ValueError"}
       \/ ia.status = "done" /\ ix.indexed = Len(ia.yielded)
    /\ cli' = _index_leave(cli, ia, ix)
    /\ UNCHANGED <<bs, rp, sr, ia, ix, rt, fn>>

CliRepack ==
    /\ cli.status = "idle"
    /\ cli.command = "repack"
    /\ \E yes_index \in BOOLEAN, yes_output \in BOOLEAN :
           cli' = _repack_enter(cli, yes_index, yes_output)
    /\ IF cli'.status = "running"
       THEN rp' = [NoRepack EXCEPT
                      !.status = "idle", !.fin = cli'.fin,
                      !.chunk_size = BatchSizeOf(parse_chunk_size(cli.args.chunk_size))]
       ELSE UNCHANGED rp
    /\ UNCHANGED <<bs, sr, ia, ix, rt, fn>>

CliRepackReturn ==
    /\ cli.status = "running"
    /\ cli.command = "repack"
    /\ rp.status \in {"done", "AssertionError", "DecodeError", "IndexError",
                      "AttributeError"}
    /\ cli' = _repack_leave(cli, rp)
    /\ UNCHANGED <<bs, rp, sr, ia, ix, rt, fn>>

SortFileCall ==
    /\ cli.status = "sort_file"
    /\ \E ok \in BOOLEAN, n \in 0..MaxRecords :
           cli' = sort_file_call(cli, cli.args.index_file, ok, n)
    /\ UNCHANGED <<bs, rp, sr, ia, ix, rt, fn>>

CliRetrieve ==
    /\ cli.status = "idle"
    /\ cli.command = "retrieve"
    /\ cli' = _retrieve_enter(cli)
    /\ IF cli'.status = "running"
       THEN rt' = [NoRetrieve EXCEPT
                      !.status = "idle", !.keys_fin = Lines(cli'.fin),
                      !.file = cli.fs[cli.args.input_file].data,
                      !.index_fin = cli.fs[cli'.args.index_file].data]
       ELSE UNCHANGED rt
    /\ UNCHANGED <<bs, rp, sr, ia, ix, fn>>

CliRetrieveReturn ==
    /\ cli.status = "running"
    /\ cli.command = "retrieve"
    /\ rt.status \in {"done", "DecodeError"}
    /\ cli' = _retrieve_leave(cli, rt)
    /\ UNCHANGED <<bs, rp, sr, ia, ix, rt, fn>>

CliSearch ==
    /\ cli.status = "idle"
    /\ cli.command = "search"
    /\ cli' = _search_enter(cli)
    /\ IF cli'.status = "running"
       THEN bs' = _binary_search_begin(cli.args.key, cli'.fin, Len(cli'.fin),
                                       _DEFAULT_BUFFER_SIZE)
       ELSE UNCHANGED bs
    /\ UNCHANGED <<rp, sr, ia, ix, rt, fn>>

CliSearchReturn ==
    /\ cli.status = "running"
    /\ cli.command = "search"
    /\ bs.status \in {"found", "KeyError", "AssertionError", "ValueError"}
    /\ cli' = _search_leave(cli, bs)
    /\ UNCHANGED <<bs, rp, sr, ia, ix, rt, fn>>

NextCli ==
    \/ CliIndex \/ IndexOpen \/ IterateArchivesBegin \/ IterateArchivesLoop
    \/ IndexFrame \/ CliIndexReturn
    \/ CliRepack \/ RepackOpen \/ RepackWriteFrame \/ RepackWriteIndex
    \/ RepackClose \/ CliRepackReturn \/ SortFileCall
    \/ CliRetrieve \/ RetrieveOpen \/ RetrieveBatch \/ RetrieveReturn
    \/ CliRetrieveReturn
    \/ CliSearch \/ BinarySearchLoop \/ CliSearchReturn

SpecCli == InitCli /\ [][NextCli]_vars

(***************************************************************************)
(* Properties of the binary search                                         *)
(***************************************************************************)
SearchEnded == bs.status \in {"found", "KeyError", "AssertionError", "ValueError"}

\* The trailing fields of an index line.
TrailingFields(line) ==
    Tail(Split(RStrip(line, _LINE_TERMINATOR), DEFAULT_CSV_DELIMITER))

KeyPresent(index, key) ==
    \E i \in 1..Len(Lines(index)) : KeyOf(Lines(index)[i]) = key

\* C1: on a non-empty sorted index, the search for a key that appears in some
\* entry ends by returning the trailing fields of an entry with that key; it
\* raises neither KeyError nor any other error.
C1_PresentKeyIsFound ==
    (SearchEnded /\ Len(bs.index) > 0 /\ KeyPresent(bs.index, bs.key)) =>
        /\ bs.status = "found"
        /\ \E i \in 1..Len(Lines(bs.index)) :
               /\ KeyOf(Lines(bs.index)[i]) = bs.key
               /\ bs.rest = TrailingFields(Lines(bs.index)[i])

\* C2: on a sorted index (the empty one included), the search for a key that
\* appears in no entry ends by raising KeyError, not by returning an entry,
\* tripping the infinite-loop assertion or failing otherwise.
C2_AbsentKeyRaisesKeyError ==
    (SearchEnded /\ ~KeyPresent(bs.index, bs.key)) => bs.status = "KeyError"

\* C11: on a sorted index the loop of the search never reaches the same
\* (start, pivot, end) twice, for any key, present or absent: the assertion
\* 'stuck in an infinite loop' never fires and the search ends by returning
\* an entry or by raising KeyError.
C11_LoopNeverRepeats ==
    /\ bs.status # "AssertionError"
    /\ (bs.status = "running" /\ Len(bs.index) > 0) =>
           <<bs.start, bs.pivot, bs.end>> \notin bs.seen

(***************************************************************************)
(* Properties of the repacker and of search on its output                  *)
(***************************************************************************)
\* decompress(X): the decoded input of the repacker.
InputData ==
    _open_compressed_file(rp.fin, _determine_compression_from_header(rp.fin)).data

InputLines == Lines(InputData)

KeyOfRecord(line) == _extract_keys_from_csv(line, rp.column, DEFAULT_CSV_DELIMITER).key

DistinctKeys ==
    \A i, j \in 1..Len(InputLines) :
        i # j => KeyOfRecord(InputLines[i]) # KeyOfRecord(InputLines[j])

\* The decoded bytes of the i-th frame the repacker recorded, read back from
\* the data sink.
FrameData(i) ==
    _open_compressed_file(
        Slice(rp.fout, rp.frames[i].frame_start,
              rp.frames[i].frame_start + rp.frames[i].frame_len),
        rp.output_compression)

LookupEnded ==
    sr.status \in {"done", "KeyError", "AssertionError", "ValueError", "DecodeError"}

\* C3: after repacking records with pairwise distinct keys and sorting the
\* index, search(k) for a key k of the input writes exactly the bytes of the
\* input record whose key is k, and nothing else.
C3_SearchWritesTheRecord ==
    (/\ LookupEnded
     /\ DistinctKeys
     /\ \E i \in 1..Len(InputLines) : KeyOfRecord(InputLines[i]) = sr.key) =>
        /\ sr.status = "done"
        /\ \E i \in 1..Len(InputLines) :
               /\ KeyOfRecord(InputLines[i]) = sr.key
               /\ sr.output_stream = InputLines[i]

\* C5: decompressing the frames the repacker wrote, in output order, and
\* concatenating the results gives decompress(X) byte for byte.
C5_RoundTrip ==
    rp.status = "done" =>
        /\ \A i \in 1..Len(rp.frames) : FrameData(i).ok
        /\ Concat([i \in 1..Len(rp.frames) |-> FrameData(i).data]) = InputData

\* A run that ended with a full frame followed by a partial one.
C5_Witness ==
    /\ rp.status = "done"
    /\ Len(rp.frames) = 2
    /\ rp.frames[2].records < rp.chunk_size
    /\ Len(InputLines) = 3

\* C8: the repacker emits ceil(N / chunk_size) frames; every frame but the
\* last holds exactly chunk_size records, the last between 1 and chunk_size.
C8_FrameCounts ==
    /\ \A i \in 1..Len(rp.frames) :
           /\ FrameData(i).ok
           /\ Len(Lines(FrameData(i).data)) >= 1
           /\ Len(Lines(FrameData(i).data)) <= rp.chunk_size
           /\ i < Len(rp.frames) => Len(Lines(FrameData(i).data)) = rp.chunk_size
    /\ rp.status = "done" =>
           Len(rp.frames) = (Len(InputLines) + rp.chunk_size - 1) \div rp.chunk_size

\* A finished run of three records in chunks of two.
C8_Witness ==
    /\ rp.status = "done"
    /\ Len(InputLines) = 3
    /\ rp.chunk_size = 2
    /\ Len(rp.frames) = 2

\* C9: the first frame_start is 0, each later frame_start is the previous
\* frame_start + frame_len, frame_start strictly increases, and after each
\* batch the last frame ends at the number of bytes written to the data sink.
C9_FrameOffsets ==
    /\ \A i \in 1..Len(rp.frames) :
           /\ i = 1 => rp.frames[i].frame_start = 0
           /\ i > 1 => /\ rp.frames[i].frame_start =
                              rp.frames[i - 1].frame_start + rp.frames[i - 1].frame_len
                       /\ rp.frames[i].frame_start > rp.frames[i - 1].frame_start
    /\ (rp.status \in {"running", "done"} /\ Len(rp.frames) > 0) =>
           rp.frames[Len(rp.frames)].frame_start + rp.frames[Len(rp.frames)].frame_len
               = Len(rp.fout)

\* Three frames have been written and indexed.
C9_Witness ==
    /\ rp.status = "done"
    /\ Len(rp.frames) = 3
    /\ rp.frames[3].frame_start > rp.frames[2].frame_start

RepackEnded ==
    rp.status \in {"done", "AssertionError", "AttributeError", "DecodeError",
                   "IndexError"}

\* C10: repacking a zero-record input completes without raising, leaves one
\* empty frame of the requested compression in the caller's data sink and
\* writes nothing to the index sink.
C10_EmptyInput ==
    (RepackEnded /\ InputData = <<>>) =>
        /\ rp.status = "done"
        /\ rp.fout = CompressedFrame(rp.output_compression, <<>>)
        /\ rp.index_fout = <<>>

(***************************************************************************)
(* Properties of the index entries and of the frame detector               *)
(***************************************************************************)
\* The (frame_start, frame_len) ranges of the frames the repacker emitted,
\* and of the frames the detector handed to the indexer with their bytes.
RepackedFrames ==
    {<<rp.frames[i].frame_start, rp.frames[i].frame_len>> : i \in 1..Len(rp.frames)}

IndexedFrames ==
    {<<ia.yielded[i].start_offset,
       ia.yielded[i].end_offset - ia.yielded[i].start_offset>> :
         i \in {j \in 1..Len(ia.yielded) :
                    ia.yielded[j].archive =
                        Slice(ia.fin, ia.yielded[j].start_offset,
                              ia.yielded[j].end_offset)}}

\* An index line locates, in data, one emitted frame and in it one complete
\* newline-terminated record whose key is the line's key.
EntryLocatesRecord(line, data, compression, emitted) ==
    LET f == Split(RStrip(line, _LINE_TERMINATOR), DEFAULT_CSV_DELIMITER)
    IN  /\ Len(f) = 5
        /\ LET fs == ParseInt(f[2])
               fl == ParseInt(f[3])
               ls == ParseInt(f[4])
               ll == ParseInt(f[5])
               dec == _open_compressed_file(Slice(data, fs, fs + fl), compression)
               rec == Slice(dec.data, ls, ls + ll)
           IN  /\ <<fs, fl>> \in emitted
               /\ fs + fl <= Len(data)
               /\ dec.ok
               /\ ll >= 1
               /\ Len(rec) = ll
               /\ rec[ll] = _LINE_TERMINATOR
               /\ Count(rec, _LINE_TERMINATOR) = 1
               /\ _extract_keys_from_csv(rec, DEFAULT_CSV_COLUMN,
                                         DEFAULT_CSV_DELIMITER).key = f[1]

\* C4: every index entry (k, fs, fl, ls, ll) written by the repacker on its
\* output, or by the indexer on its input, addresses one emitted frame, and
\* the decompressed frame sliced at [ls, ls+ll) is one complete
\* newline-terminated record whose key is k.
C4_IndexFidelity ==
    /\ \A i \in 1..Len(Lines(rp.index_fout)) :
           EntryLocatesRecord(Lines(rp.index_fout)[i], rp.fout,
                              rp.output_compression, RepackedFrames)
    /\ \A i \in 1..Len(Lines(ix.output_file)) :
           EntryLocatesRecord(Lines(ix.output_file)[i], ia.fin, ia.compression,
                              IndexedFrames)

\* C7: retrieve writes the record of every requested key that has an entry
\* in the index, whatever the number of requested keys: the keys of the
\* second and later batches are matched against the whole index too.
C7_EveryBatchIsMatched ==
    rt.status = "done" =>
        LET requested == {Strip(rt.keys_fin[i]) : i \in 1..Len(rt.keys_fin)}
            rows == IndexRows(rt.index_fin)
            indexed == {rows[j][1] : j \in 1..Len(rows)}
            out == Lines(rt.output_stream)
            written == {KeyOfRecord(out[j]) : j \in 1..Len(out)}
        IN  (requested \cap indexed) \subseteq written

IterateEnded == ia.status \in {"done", "ValueError", "AssertionError"}

\* C6: for every input, buffer size and supported compression kind, the
\* triples of _iterate_archives are in input order, start at 0, abut, have
\* end_off - start_off = the length of their bytes, end at the input size,
\* and their bytes concatenated are the input.
C6_TriplesCoverInput ==
    (IterateEnded /\ ia.compression \in SUPPORTED_COMPRESSIONS) =>
        /\ ia.status = "done"
        /\ Len(ia.yielded) >= 1
        /\ ia.yielded[1].start_offset = 0
        /\ \A i \in 1..Len(ia.yielded) :
               /\ ia.yielded[i].end_offset - ia.yielded[i].start_offset
                      = Len(ia.yielded[i].archive)
               /\ i > 1 => ia.yielded[i].start_offset = ia.yielded[i - 1].end_offset
        /\ ia.yielded[Len(ia.yielded)].end_offset = Len(ia.fin)
        /\ Concat([i \in 1..Len(ia.yielded) |-> ia.yielded[i].archive]) = ia.fin

(***************************************************************************)
(* Properties of the header validators                                     *)
(***************************************************************************)
\* C12: the gzip validator accepts a candidate if and only if it is at least
\* 10 bytes long, its bytes 4..8 are a little-endian signed 32-bit timestamp
\* t with 1262307600 <= t <= now, and its byte 9 is one of 0x00, 0x03, 0x07,
\* 0xFF; no other byte changes the verdict.
C12_GzipValidatorVerdict ==
    (fn.status = "returned" /\ fn.name = "_is_valid_gzip_header") =>
        ((fn.result = "True") <=>
            /\ Len(fn.header) >= 10
            /\ 1262307600 <= fn.timestamp
            /\ fn.timestamp <= Now
            /\ fn.header[10] \in {0, 3, 7, 255})

\* An accepted candidate that does not start with the gzip magic, and whose
\* timestamp is the present.
C12_Witness ==
    /\ fn.status = "returned"
    /\ fn.name = "_is_valid_gzip_header"
    /\ fn.result = "True"
    /\ fn.timestamp = Now
    /\ fn.header[1] # 31
    /\ Len(fn.header) > 10

\* C13: the zstd validator rejects every frame_header_descriptor (byte 4)
\* whose bits 3..4 are not 00 and every one whose bit 5 is 0, and accepts
\* every one whose bits 3..4 are 00 and whose bit 5 is 1.
C13_ZstdValidatorVerdict ==
    (fn.status = "returned" /\ fn.name = "_is_valid_zstd_header") =>
        LET descriptor == fn.header[5]
        IN  (fn.result = "True") <=>
                /\ (descriptor \div 8) % 4 = 0
                /\ (descriptor \div 32) % 2 = 1

(***************************************************************************)
(* Properties of the command line and of sort_file                         *)
(***************************************************************************)
\* C14: the repack subcommand given --chunk-size N packs N records per frame,
\* exactly as the library call with chunk_size=N does: the data file and the
\* index it leaves are those of the library call.
C14_ChunkSizeOption ==
    (cli.status = "sort_file" /\ cli.command = "repack"
        /\ cli.argv.chunk_size # None) =>
        LET library == RepackRun([NoRepack EXCEPT
                                     !.status = "idle", !.fin = cli.fin,
                                     !.chunk_size = ParseInt(cli.argv.chunk_size)])
        IN  /\ cli.fs[cli.args.output_file].data = library.fout
            /\ cli.fs[cli.args.index_file].data = library.index_fout

\* C15: when the sort pipeline fails, the temporary file that holds the
\* moved-aside original is still on disk.
C15_FailedSortKeepsOriginal ==
    (cli.status = "exit" /\ cli.sort = "failed") =>
        /\ cli.fs[TmpPath].exists
        /\ cli.fs[TmpPath].data = cli.unsorted

\* The inputs a run names: the data file, the keys file, and for retrieve and
\* search the index file.
NamedInputs ==
    {cli.argv.input_file, cli.argv.keys} \cup
        (IF cli.command \in {"retrieve", "search"} THEN {cli.argv.index_file} ELSE {})

\* C16: a run of any subcommand that names an input which does not exist
\* ends with status 1 and has opened no output sink.
C16_MissingInputOpensNothing ==
    (cli.status = "exit" /\ \E p \in NamedInputs \ {None} : ~cli.fs[p].exists) =>
        /\ cli.exit_code = 1
        /\ cli.opened = {}

(***************************************************************************)
(* Properties of the frame detector on concatenated members                *)
(***************************************************************************)
\* The 0-based positions of data at which the gzip magic occurs.
MagicAt(data) ==
    {p \in 0..(Len(data) - Len(_GZIP_HEADER)) :
         Slice(data, p, p + Len(_GZIP_HEADER)) = _GZIP_HEADER}

\* The offset of the i-th member in the concatenation.
RECURSIVE MemberOffset(_, _)
MemberOffset(members, i) ==
    IF i <= 1 THEN 0 ELSE MemberOffset(members, i - 1) + Len(members[i - 1])

\* C17: when the input is one or more gzip members, each beginning with a
\* header the validator passes and each at least buffer_size + 10 bytes long,
\* and the gzip magic occurs nowhere else, _iterate_archives yields exactly
\* one triple per member, in order, with the member's bytes and byte range.
C17_OneTriplePerMember ==
    (/\ fn.status = "called" /\ fn.name = "_iterate_archives"
     /\ ia.status = "done"
     /\ \A i \in 1..Len(fn.members) :
            /\ _is_valid_gzip_header(Slice(fn.members[i], 0, _GZIP_HEADER_LENGTH))
            /\ Len(fn.members[i]) >= ia.buffer_size + 10
     /\ MagicAt(ia.fin) = {MemberOffset(fn.members, i) : i \in 1..Len(fn.members)}) =>
        /\ Len(ia.yielded) = Len(fn.members)
        /\ \A i \in 1..Len(fn.members) :
               /\ ia.yielded[i].archive = fn.members[i]
               /\ ia.yielded[i].start_offset = MemberOffset(fn.members, i)
               /\ ia.yielded[i].end_offset
                      = MemberOffset(fn.members, i) + Len(fn.members[i])

\* Three members of different lengths read 15 bytes at a time, each member
\* at least 25 bytes long, and all three yielded.
C17_Witness ==
    /\ fn.status = "called" /\ fn.name = "_iterate_archives"
    /\ ia.status = "done"
    /\ ia.buffer_size = 15
    /\ Len(fn.members) = 3
    /\ fn.members[1] # fn.members[2]
    /\ \A i \in 1..3 : Len(fn.members[i]) >= 25
    /\ Len(ia.yielded) = 3

(***************************************************************************)
(* Properties of _start_of_line and _buffer_chunk                          *)
(***************************************************************************)
\* The largest offset s <= P with s = 0 or the terminator at offset s - 1.
StartOfLineAt(fin, P) ==
    CHOOSE s \in 0..P :
        /\ s = 0 \/ fin[s] = _LINE_TERMINATOR
        /\ \A t \in (s + 1)..P : fin[t] # _LINE_TERMINATOR

\* The offset after the end of the line that holds the byte at offset q.
EndOfLineAt(fin, q) ==
    CHOOSE e \in (q + 1)..Len(fin) :
        /\ fin[e] = _LINE_TERMINATOR
        /\ \A t \in (q + 1)..(e - 1) : fin[t] # _LINE_TERMINATOR

\* C19: from any position P of a file, _start_of_line ends and leaves the
\* position at the largest offset s <= P with s = 0 or the terminator at
\* s - 1, whatever the initial lookbehind size >= 1.  The transition is taken
\* from every file, position and lookbehind of the specification.
C19_StartOfLine ==
    [][(fn.name = "_start_of_line" /\ fn.status = "called") =>
           /\ fn'.status = "returned"
           /\ fn'.tell = StartOfLineAt(fn.fin, fn.tell)]_vars

\* A call with a lookbehind of one byte, from a position two or more bytes
\* into a line that is not the first of its file.
C19_Witness ==
    /\ fn.name = "_start_of_line"
    /\ fn.status = "returned"
    /\ fn.bufsize = 1
    /\ fn.tell >= 2
    /\ fn.seek >= fn.tell + 2

\* C18: on a file of terminated lines and a request 0 <= start < end <= size,
\* _buffer_chunk returns the file bytes from the start of the line holding
\* byte start to the end of the line holding byte end - 1, with start = 0,
\* end = the buffer's length, and pivot = the requested pivot minus the file
\* offset of the buffer's first byte.
C18_BufferChunk ==
    [][(fn.name = "_buffer_chunk" /\ fn.status = "called") =>
           LET first == StartOfLineAt(fn.fin, fn.start)
               last == EndOfLineAt(fn.fin, fn.end - 1)
           IN  /\ fn'.status = "returned"
               /\ fn'.buf = Slice(fn.fin, first, last)
               /\ fn'.start = 0
               /\ fn'.end = Len(fn'.buf)
               /\ fn'.pivot = fn.pivot - first]_vars

\* A returned buffer of two or more lines that is longer than the window
\* asked for, and starts after the file's first line.
C18_Witness ==
    /\ fn.name = "_buffer_chunk"
    /\ fn.status = "returned"
    /\ Count(fn.buf, _LINE_TERMINATOR) >= 2
    /\ Len(fn.buf) < Len(fn.fin)
    /\ fn.fin[1] = _LINE_TERMINATOR \/ fn.fin[2] = _LINE_TERMINATOR
    /\ SubSeq(fn.fin, 1, Len(fn.buf)) # fn.buf

(***************************************************************************)
(* Properties of the index lines                                           *)
(***************************************************************************)
\* A non-negative base-10 integer: one or more digits.
IsNumber(field) ==
    Len(field) >= 1 /\ \A i \in 1..Len(field) : field[i] \in 48..57

\* Every line ends with the terminator and has five fields, the last four
\* of them numbers.
WellFormedIndex(data) ==
    /\ data = <<>> \/ data[Len(data)] = _LINE_TERMINATOR
    /\ \A i \in 1..Len(Lines(data)) :
           LET f == Split(RStrip(Lines(data)[i], _LINE_TERMINATOR),
                          DEFAULT_CSV_DELIMITER)
           IN  /\ Len(f) = 5
               /\ \A j \in 2..5 : IsNumber(f[j])

\* C20: every line the indexer or the repacker writes to the index is
\* terminated by a newline and has exactly five |-separated fields, the last
\* four of them non-negative base-10 integers, whatever key the extractor
\* returns.
C20_IndexLineFormat ==
    /\ WellFormedIndex(rp.index_fout)
    /\ WellFormedIndex(ix.output_file)

(***************************************************************************)
(* Properties of the line ranges of a frame's entries                      *)
(***************************************************************************)
\* The (line_start, line_len) pairs of the entries of index that name the
\* frame at frame_start, in the order of the index.
EntryRanges(index, frame_start) ==
    LET fields == [i \in 1..Len(Lines(index)) |->
                      Split(RStrip(Lines(index)[i], _LINE_TERMINATOR),
                            DEFAULT_CSV_DELIMITER)]
        ofFrame == SelectSeq(fields,
                       LAMBDA f : Len(f) >= 5 /\ ParseInt(f[Len(f) - 3]) = frame_start)
    IN  [i \in 1..Len(ofFrame) |->
            <<ParseInt(ofFrame[i][Len(ofFrame[i]) - 1]),
              ParseInt(ofFrame[i][Len(ofFrame[i])])>>]

RECURSIVE SumOfLineLen(_)
SumOfLineLen(ranges) ==
    IF Len(ranges) = 0 THEN 0 ELSE Head(ranges)[2] + SumOfLineLen(Tail(ranges))

\* ranges starts at 0, each range starts where the one before ends, and
\* the lengths add up to size.
RangesPartition(ranges, size) ==
    /\ Len(ranges) >= 1 => ranges[1][1] = 0
    /\ \A i \in 2..Len(ranges) : ranges[i][1] = ranges[i - 1][1] + ranges[i - 1][2]
    /\ SumOfLineLen(ranges) = size

\* C21: the line ranges of the entries of each repacker batch, and of each
\* frame the indexer walked to its end, partition the frame's decompressed
\* bytes: the first line_start is 0, each later line_start is the previous
\* line_start + line_len, and the line_len add up to the frame's
\* uncompressed size; line_start restarts at 0 with every frame.
C21_LineRangesPartition ==
    /\ \A i \in 1..Len(rp.frames) :
           RangesPartition(EntryRanges(rp.index_fout, rp.frames[i].frame_start),
                           Len(FrameData(i).data))
    /\ \A j \in 1..ix.indexed :
           RangesPartition(
               EntryRanges(ix.output_file, ia.yielded[j].start_offset),
               Len(_open_compressed_file(ia.yielded[j].archive, ia.compression).data))

(***************************************************************************)
(* The any-index specification: _binary_search on an index whose lines all *)
(* hold the delimiter, in any order, with or without a final terminator    *)
(***************************************************************************)
\* The entries (key number, pad width) of every index of at most MaxLines
\* lines, sorted or not.
AnyEntries ==
    UNION {[1..n -> (1..Len(KeyUniverse)) \X {1, LongPad}] : n \in 0..MaxLines}

\* The bytes of an index, and the same bytes without the last terminator.
AnyIndexes ==
    {IndexBytes(e) : e \in AnyEntries}
        \cup {RStrip(IndexBytes(e), _LINE_TERMINATOR) : e \in AnyEntries}

InitAnyIndex ==
    \E x \in AnyIndexes, k \in 1..Len(KeyUniverse), T \in {0, 1} :
        /\ bs = [NoSearch EXCEPT !.status = "idle", !.key = KeyUniverse[k],
                                 !.index = x, !.fsize = Len(x), !.buffer_size = T]
        /\ rp = NoRepack
        /\ sr = NoLookup
        /\ ia = NoArchives
        /\ ix = NoIndexer
        /\ rt = NoRetrieve
        /\ fn = NoCall
        /\ cli = NoCommand

SpecAnyIndex == InitAnyIndex /\ [][NextSearch]_vars

(***************************************************************************)
(* Termination of the binary search                                        *)
(***************************************************************************)
\* An iteration that does not end the search visits a triple it had not
\* visited, records it, and leaves a triple within the file: the visited
\* set grows inside a finite set, so the iterations are finitely many.
IterationProgresses ==
    /\ bs'.status = "running"
    /\ <<bs.start, bs.pivot, bs.end>> \notin bs.seen
    /\ bs'.seen = bs.seen \cup {<<bs.start, bs.pivot, bs.end>>}
    /\ {bs'.start, bs'.pivot, bs'.end} \subseteq 0..bs.fsize

\* C22: on any index whose lines all hold the delimiter, and for any key,
\* every iteration of the search either ends it, with a returned entry,
\* KeyError or the visited-triple assertion, or visits a new triple; a
\* triple that recurs trips the assertion at once.
C22_SearchEnds ==
    [][bs.status = "running" =>
          /\ bs'.status \in {"found", "KeyError", "AssertionError"}
                \/ IterationProgresses
          /\ <<bs.start, bs.pivot, bs.end>> \in bs.seen
                => bs'.status = "AssertionError"]_vars

\* The same on the indexes of at least one line.
C22_NonEmptyIndex ==
    [][(bs.status = "running" /\ bs.index # <<>>) =>
          /\ bs'.status \in {"found", "KeyError", "AssertionError"}
                \/ IterationProgresses
          /\ <<bs.start, bs.pivot, bs.end>> \in bs.seen
                => bs'.status = "AssertionError"]_vars

(***************************************************************************)
(* The index-stream specification: search on an index stored as it is, or  *)
(* gzip-compressed under a path ending in .gz                              *)
(***************************************************************************)
\* What smart_open.open(path, 'rb') reads from a file holding data: without
\* ignore_ext, a path ending in .gz is decompressed on the way.
SmartOpenRead(path, data, ignore_ext) ==
    IF ~ignore_ext /\ EndsWith(path, GzExtension)
    THEN GzipDecode(data).data ELSE data

\* _getsize: the offset of the end of the file opened with ignore_ext=True.
_getsize(path, data) == Len(SmartOpenRead(path, data, TRUE))

GzIndexPath == IndexPath \o GzExtension

\* The sorted indexes of short lines.
ShortEntries == {e \in SortedEntries : \A i \in 1..Len(e) : e[i][2] = 1}

\* The file at an index path.
IndexFileAt(path, e) ==
    IF EndsWith(path, GzExtension) THEN GzipMember(IndexBytes(e), Now)
    ELSE IndexBytes(e)

InitStream ==
    /\ \E path \in {IndexPath, GzIndexPath}, e \in ShortEntries,
          k \in 1..Len(KeyUniverse) :
           fn = [status |-> "called", name |-> "search", key |-> KeyUniverse[k],
                 index_path |-> path, index_file |-> IndexFileAt(path, e),
                 fsize |-> 0]
    /\ bs = NoSearch
    /\ rp = NoRepack
    /\ sr = NoLookup
    /\ ia = NoArchives
    /\ ix = NoIndexer
    /\ rt = NoRetrieve
    /\ cli = NoCommand

\* Lines 657-666 of search: measure the index, open it and start the binary
\* search on the opened stream.
SearchOpenIndex ==
    /\ fn.status = "called"
    /\ fn.name = "search"
    /\ LET fsize == _getsize(fn.index_path, fn.index_file)
           fin == SmartOpenRead(fn.index_path, fn.index_file, FALSE)
       IN  /\ bs' = _binary_search_begin(fn.key, fin, fsize, _DEFAULT_BUFFER_SIZE)
           /\ fn' = [fn EXCEPT !.status = "searching", !.fsize = fsize]
    /\ UNCHANGED <<rp, sr, ia, ix, rt, cli>>

NextStream == SearchOpenIndex \/ BinarySearchLoop

SpecStream == InitStream /\ [][NextStream]_vars

\* C23: the fsize that search hands to the binary search is the byte length
\* of the index stream the binary search reads, for a plain index file and
\* for a gzip-compressed one read through transparent decompression.
C23_FsizeIsStreamLength ==
    (fn.status = "searching" /\ fn.name = "search") =>
        /\ bs.fsize = fn.fsize
        /\ bs.fsize = Len(bs.index)

\* The same for the index files whose path does not end in .gz.
C23_PlainIndex ==
    (fn.status = "searching" /\ fn.name = "search"
        /\ ~EndsWith(fn.index_path, GzExtension)) =>
        /\ bs.fsize = fn.fsize
        /\ bs.fsize = Len(bs.index)

(***************************************************************************)
(* The outcome of the binary search under the buffer thresholds            *)
(***************************************************************************)
\* The state in which the loop that starts in s ends.
RECURSIVE RunOfSearch(_)
RunOfSearch(s) ==
    IF s.status # "running" THEN s
    ELSE Once({RunOfSearch(n) : n \in {_binary_search_loop(s)}})

\* What the caller sees of a run: how it ended and the entry it returned.
OutcomeOf(s) == <<s.status, s.rest>>

\* The outcome of the search of the running index under the threshold T.
OutcomeUnder(T) ==
    OutcomeOf(RunOfSearch(_binary_search_begin(bs.key, bs.index, bs.fsize, T)))

\* C24: on a sorted index the outcome of the search, the entry returned or
\* KeyError, is the same whether the whole file is buffered up front, a
\* window is buffered part-way or nothing is ever buffered.
C24_SameOutcomeForEveryThreshold ==
    SearchEnded =>
        /\ OutcomeOf(bs) = OutcomeUnder(bs.buffer_size)
        /\ \A T \in {0, 1} : OutcomeUnder(T) = OutcomeOf(bs)

(***************************************************************************)
(* The order of the repacker's writes                                      *)
(***************************************************************************)
\* The frame an index line names lies whole in data, decodes, and holds the
\* line range of the entry.
FrameIsWritten(line, data, compression) ==
    LET f == Split(RStrip(line, _LINE_TERMINATOR), DEFAULT_CSV_DELIMITER)
        frame_start == ParseInt(f[Len(f) - 3])
        frame_len == ParseInt(f[Len(f) - 2])
        line_start == ParseInt(f[Len(f) - 1])
        line_len == ParseInt(f[Len(f)])
        frame == _open_compressed_file(
                     Slice(data, frame_start, frame_start + frame_len), compression)
    IN  /\ Len(f) >= 5
        /\ frame_len >= 1
        /\ frame_start + frame_len <= Len(data)
        /\ frame.ok
        /\ line_start + line_len <= Len(frame.data)

\* C25: at every point of a repacker run, every index entry in the index
\* sink names a frame whose bytes are already whole in the data sink: the
\* data of a batch is written before any index entry of the batch.
C25_DataBeforeIndex ==
    \A i \in 1..Len(Lines(rp.index_fout)) :
        FrameIsWritten(Lines(rp.index_fout)[i], rp.fout, rp.output_compression)

\* The run stands between the data write of its third batch and the index
\* write of that batch: two frames are indexed, three are in the data sink.
C25_Witness ==
    /\ rp.status = "frame_written"
    /\ Len(rp.frames) = 2
    /\ Len(Lines(rp.index_fout)) = 2
    /\ Len(rp.fout) > rp.end_offset

(***************************************************************************)
(* The abort specification: the repacker on records the key extractor      *)
(* fails on                                                                *)
(***************************************************************************)
\* The records a|x, the blank line and b: the blank line has no column at
\* all, b has no second column.
AbortRecords == << <<97, 124, 120, 10>>, <<10>>, <<98, 10>> >>

AbortInputs ==
    {CompressedFrame(c, Concat([i \in 1..Len(rs) |-> AbortRecords[rs[i]]])) :
        c \in SUPPORTED_COMPRESSIONS,
        rs \in UNION {[1..n -> 1..Len(AbortRecords)] : n \in 0..MaxRecords}}

InitAbort ==
    /\ \E x \in AbortInputs, n \in 1..MaxChunkSize, c \in SUPPORTED_COMPRESSIONS,
          column \in {DEFAULT_CSV_COLUMN, DEFAULT_CSV_COLUMN + 1} :
           rp = [NoRepack EXCEPT !.status = "idle", !.fin = x, !.chunk_size = n,
                                 !.output_compression = c, !.column = column]
    /\ bs = NoSearch
    /\ sr = NoLookup
    /\ ia = NoArchives
    /\ ix = NoIndexer
    /\ rt = NoRetrieve
    /\ fn = NoCall
    /\ cli = NoCommand

NextAbort == RepackOpen \/ RepackWriteFrame \/ RepackWriteIndex \/ RepackClose

SpecAbort == InitAbort /\ [][NextAbort]_vars

(***************************************************************************)
(* What the repacker leaves behind when the key extractor fails            *)
(***************************************************************************)
\* The batches of the input, and the first of them holding a record the
\* extractor fails on.
InputBatches == _batch_iterator(InputLines, FALSE, rp.chunk_size)

ExtractorFails(batch) ==
    \E i \in 1..Len(batch) :
        ~_extract_keys_from_csv(batch[i], rp.column, DEFAULT_CSV_DELIMITER).ok

FailingBatch ==
    CHOOSE b \in 1..Len(InputBatches) :
        /\ ExtractorFails(InputBatches[b])
        /\ \A j \in 1..(b - 1) : ~ExtractorFails(InputBatches[j])

\* The frame of the j-th batch, and the offset at which it is written.
FrameOfBatch(j) == CompressedFrame(rp.output_compression, Concat(InputBatches[j]))

RECURSIVE OffsetOfBatch(_)
OffsetOfBatch(j) ==
    IF j <= 1 THEN 0 ELSE OffsetOfBatch(j - 1) + Len(FrameOfBatch(j - 1))

\* The index entries of the j-th batch.
EntriesOfBatch(j) ==
    Concat([i \in 1..Len(InputBatches[j]) |->
        _extract_keys_from_csv(InputBatches[j][i], rp.column,
                               DEFAULT_CSV_DELIMITER).key
            \o <<DEFAULT_CSV_DELIMITER>> \o Decimal(OffsetOfBatch(j))
            \o <<DEFAULT_CSV_DELIMITER>> \o Decimal(Len(FrameOfBatch(j)))
            \o <<DEFAULT_CSV_DELIMITER>> \o Decimal(LineStart(InputBatches[j], i))
            \o <<DEFAULT_CSV_DELIMITER>> \o Decimal(Len(InputBatches[j][i]))
            \o <<_LINE_TERMINATOR>>])

\* C26: when the key extractor fails on a record of batch b, the repacker
\* aborts with exactly the frames of the batches before b in the data sink
\* and exactly their entries in the index sink: no byte of a partial frame
\* and no entry of batch b is written.
C26_AbortLeavesWholeBatches ==
    (RepackEnded /\ \E b \in 1..Len(InputBatches) : ExtractorFails(InputBatches[b])) =>
        /\ rp.status = "IndexError"
        /\ rp.fout = Concat([j \in 1..(FailingBatch - 1) |-> FrameOfBatch(j)])
        /\ rp.index_fout = Concat([j \in 1..(FailingBatch - 1) |-> EntriesOfBatch(j)])

\* The extractor failed on the first record of the second batch, after a
\* whole batch of two records was written with its two entries.
C26_Witness ==
    /\ rp.status = "IndexError"
    /\ rp.chunk_size = 2
    /\ Len(rp.frames) = 1
    /\ FailingBatch = 2
    /\ Len(Lines(rp.index_fout)) = 2
    /\ rp.fout # <<>>

====
